---------------------------- MODULE Spec2Model ----------------------------
(***************************************************************************)
(* A model of the redpen annotation core: the segment builder of           *)
(* AssistantMessageView and the selection session / annotation store of    *)
(* ChatExperience.                                                         *)
(*                                                                         *)
(* Texts are sequences of one-character strings.  Character offsets are    *)
(* the 0-based offsets of the source; Slice is String.prototype.slice.     *)
(***************************************************************************)
EXTENDS Integers, Sequences, FiniteSets, TLC

(***************************************************************************)
(* Bounds of the model.                                                    *)
(***************************************************************************)
\* longest text handed to the segment builder in SegSpec
SegMaxLen == 4
\* most annotations handed to the segment builder in SegSpec
SegMaxAnns == 3

Min(a, b) == IF a <= b THEN a ELSE b
Max(a, b) == IF a >= b THEN a ELSE b

(***************************************************************************)
(* String.prototype.slice(a, b): negative indexes count from the end, both *)
(* are clamped to the string, and an empty string results when the start   *)
(* is not before the end.                                                  *)
(***************************************************************************)
Slice(s, a, b) ==
  LET n    == Len(s)
      from == IF a < 0 THEN Max(n + a, 0) ELSE Min(a, n)
      to   == IF b < 0 THEN Max(n + b, 0) ELSE Min(b, n)
  IN  IF from >= to THEN << >> ELSE SubSeq(s, from + 1, to)

RECURSIVE Concat(_)
\* the concatenation of a sequence of sequences
Concat(ss) == IF ss = << >> THEN << >> ELSE Head(ss) \o Concat(Tail(ss))

(***************************************************************************)
(* Annotation (types.ts).  An id is a positive number; NoAnnotation is the *)
(* absent `annotation` field of a plain segment.                           *)
(***************************************************************************)
NoAnnotation == [id |-> 0]

Annotation(id, messageId, start, end, noteText, snippet, createdAt) ==
  [id |-> id, messageId |-> messageId, start |-> start, end |-> end,
   noteText |-> noteText, snippet |-> snippet, createdAt |-> createdAt]

(***************************************************************************)
(* annotations.slice().sort((a, b) => a.start - b.start): Array.prototype  *)
(* .sort is stable, so equal starts keep their stored order.               *)
(***************************************************************************)
RECURSIVE InsertByStart(_, _)
InsertByStart(sorted, a) ==
  IF sorted = << >> THEN << a >>
  ELSE IF a.start < Head(sorted).start THEN << a >> \o sorted
  ELSE << Head(sorted) >> \o InsertByStart(Tail(sorted), a)

RECURSIVE SortByStart(_)
SortByStart(anns) ==
  IF anns = << >> THEN << >>
  ELSE InsertByStart(SortByStart(SubSeq(anns, 1, Len(anns) - 1)), anns[Len(anns)])

(***************************************************************************)
(* A segment { text, annotation? }.  from/to are the arguments of the      *)
(* slice that produced the text: the text-index range the segment stands   *)
(* for.  They are not fields of the source's segment.                      *)
(***************************************************************************)
Segment(text, from, to, annotation) ==
  [text |-> Slice(text, from, to), annotation |-> annotation,
   from |-> from, to |-> to]

(***************************************************************************)
(* buildSegments of components/AssistantMessageView.tsx (the same function *)
(* is in part_002): every annotation is emitted over its own               *)
(* [start, end), whatever the cursor.                                      *)
(***************************************************************************)
RECURSIVE BuildLoop(_, _, _, _)
BuildLoop(text, sorted, cursor, segments) ==
  IF sorted = << >>
  THEN IF cursor < Len(text)
       THEN Append(segments, Segment(text, cursor, Len(text), NoAnnotation))
       ELSE segments
  ELSE LET annotation == Head(sorted)
           withPlain  == IF annotation.start > cursor
                         THEN Append(segments,
                                Segment(text, cursor, annotation.start, NoAnnotation))
                         ELSE segments
       IN  BuildLoop(text, Tail(sorted), annotation.end,
             Append(withPlain,
               Segment(text, annotation.start, annotation.end, annotation)))

\* the annotations taken in their stored order
buildSegmentsUnsorted(text, annotations) ==
  BuildLoop(text, annotations, 0, << >>)

buildSegments(text, annotations) ==
  BuildLoop(text, SortByStart(annotations), 0, << >>)

(***************************************************************************)
(* buildSegments of part_001: an annotation that ends at or before the     *)
(* cursor is skipped, and an annotation is emitted from                    *)
(* max(start, cursor).                                                     *)
(***************************************************************************)
RECURSIVE BuildLoopCursor(_, _, _, _)
BuildLoopCursor(text, sorted, cursor, segments) ==
  IF sorted = << >>
  THEN IF cursor < Len(text)
       THEN Append(segments, Segment(text, cursor, Len(text), NoAnnotation))
       ELSE segments
  ELSE LET annotation     == Head(sorted)
           effectiveStart == Max(annotation.start, cursor)
           withPlain      == IF effectiveStart > cursor
                             THEN Append(segments,
                                    Segment(text, cursor, effectiveStart, NoAnnotation))
                             ELSE segments
       IN  IF annotation.end <= cursor
           THEN BuildLoopCursor(text, Tail(sorted), cursor, segments)
           ELSE BuildLoopCursor(text, Tail(sorted), annotation.end,
                  Append(withPlain,
                    Segment(text, effectiveStart, annotation.end, annotation)))

\* the annotations of equal start taken last stored first
buildSegmentsCursorLastFirst(text, annotations) ==
  BuildLoopCursor(text,
    SortByStart([i \in 1..Len(annotations) |-> annotations[Len(annotations) + 1 - i]]),
    0, << >>)

buildSegmentsCursor(text, annotations) ==
  BuildLoopCursor(text, SortByStart(annotations), 0, << >>)

(***************************************************************************)
(* ChatExperience: the texts of the conversation.                          *)
(***************************************************************************)
\* the first paragraph of SAMPLE_MESSAGE.html as stripHtmlToPlainText gives it
SampleText ==
  << "W", "e", "l", "c", "o", "m", "e", " ", "t", "o", " ", "t", "h", "e",
     " ", "R", "e", "d", "P", "e", "n", " ", "d", "e", "m", "o", "." >>

\* the content of the pending assistant entry
ThinkingText ==
  << "T", "h", "i", "n", "k", "i", "n", "g" >>

\* the fallback reply of sendPrompt's catch branch
FallbackText ==
  << "I", "'", "m", " ", "r", "a", "t", "e", " ", "l", "i", "m", "i", "t",
     "e", "d", " ", "r", "i", "g", "h", "t", " ", "n", "o", "w", ",", " ",
     "b", "u", "t", " ", "y", "o", "u", " ", "c", "a", "n", " ", "s", "t",
     "i", "l", "l", " ", "s", "e", "l", "e", "c", "t", " ", "t", "h", "i",
     "s", " ", "t", "e", "x", "t", "." >>

\* the replies the backend may give
ReplyTexts ==
  { << "T", "h", "e", " ", "q", "u", "i", "c", "k", " ", "b", "r", "o", "w", "n", " ", "f", "o", "x" >> }

\* SAMPLE_MESSAGE.id; every other id comes from generateId
SampleId == 1
\* the object key a missing messageId argument turns into ("undefined")
Undefined == 0

\* what the user may type in the note field and in the composer
NoteInputs == { << >>, << " ", "t" >> }
ComposerInputs == { << >>, << "q" >> }
\* the character offsets a selection may begin or end at
SelOffsets == { 0, 5, 10 }

\* generateId is called while its result is at most MaxId
MaxId == 4
\* sends accepted in one run of the model
MaxSends == 1
\* deferred selection runs that may be waiting at once
MaxDeferred == 1

Whitespace == { " ", "\n", "\t", "\r" }

RECURSIVE TrimStart(_)
TrimStart(s) ==
  IF s # << >> /\ Head(s) \in Whitespace THEN TrimStart(Tail(s)) ELSE s

RECURSIVE TrimEnd(_)
TrimEnd(s) ==
  IF s # << >> /\ s[Len(s)] \in Whitespace
  THEN TrimEnd(SubSeq(s, 1, Len(s) - 1)) ELSE s

\* String.prototype.trim
Trim(s) == TrimEnd(TrimStart(s))

(***************************************************************************)
(* Absent values: a null pendingRange, a null toolbarPosition, a null      *)
(* editingAnnotationId, an empty browser selection (rangeCount = 0).       *)
(***************************************************************************)
NoRange == [start |-> -1, end |-> -1]
NoPosition == "null"
SomePosition == "set"
NoId == 0
NoSelection == [start |-> [msg |-> 0, off |-> 0], end |-> [msg |-> 0, off |-> 0],
                ranges |-> 0]

VARIABLES
  conversation,            \* ChatEntry[]: [id, role, content, pending]
  activeMessageId,
  activeMessagePlainText,
  annotationsByMessage,    \* the store: the keys in insertion order, each with its list
  pendingRange,
  toolbarPosition,
  toolbarNoteText,
  editingAnnotationId,
  toolbarMode,
  selectedText,
  composerValue,
  isSending,
  nextId,                  \* the next result of generateId
  selection,               \* window.getSelection()
  deferred,                \* the run closures handed to requestAnimationFrame
  last,                    \* the handler that ran last, with its arguments
  segIn,                   \* the arguments of a call of buildSegments or getOffsetsFromRange
  segOut                   \* its result

sessionVars == << pendingRange, toolbarPosition, toolbarNoteText,
                  editingAnnotationId, toolbarMode, selectedText >>
chatVars == << conversation, activeMessageId, activeMessagePlainText,
               annotationsByMessage, composerValue, isSending, nextId,
               selection, deferred, last >>
segVars == << segIn, segOut >>
vars == << sessionVars, chatVars, segVars >>

(***************************************************************************)
(* The annotation store, Record<string, Annotation[]>: a sequence of       *)
(* [key, annotations] in the insertion order of the keys, which is the     *)
(* order Object.values enumerates string keys in.                          *)
(***************************************************************************)
Keys(store) == { store[i].key : i \in 1..Len(store) }

\* current[messageId] ?? []
Get(store, key) ==
  IF key \in Keys(store)
  THEN store[CHOOSE i \in 1..Len(store) : store[i].key = key].annotations
  ELSE << >>

\* a write that lands in the set of the first key of the store
PutFirst(store, key, annotations) ==
  IF store = << >> THEN << [key |-> key, annotations |-> annotations] >>
  ELSE [store EXCEPT ![1].annotations = annotations]

\* { ...current, [key]: annotations }
Put(store, key, annotations) ==
  IF key \in Keys(store)
  THEN [i \in 1..Len(store) |->
          IF store[i].key = key
          THEN [key |-> key, annotations |-> annotations] ELSE store[i]]
  ELSE Append(store, [key |-> key, annotations |-> annotations])

\* Object.values(annotationsByMessage).flat()
allAnnotations == Concat([i \in 1..Len(annotationsByMessage) |->
                            annotationsByMessage[i].annotations])

Ids(anns) == { anns[i].id : i \in 1..Len(anns) }

RECURSIVE Filter(_, _)
\* existing.filter((annotation) => annotation.id !== id)
Filter(anns, id) ==
  IF anns = << >> THEN << >>
  ELSE IF Head(anns).id # id THEN << Head(anns) >> \o Filter(Tail(anns), id)
  ELSE Filter(Tail(anns), id)

\* no range counts as overlapping
OverlapsNever(range, ann) == FALSE

\* ranges that only touch count as overlapping
OverlapsTouching(range, ann) == range.start <= ann.end /\ range.end >= ann.start

\* range.start < ann.end && range.end > ann.start
Overlaps(range, ann) == range.start < ann.end /\ range.end > ann.start

RECURSIVE Find(_, _)
\* targetAnnotations.find(overlaps): the first match in stored order, or none
Find(anns, range) ==
  IF anns = << >> THEN NoAnnotation
  ELSE IF Overlaps(range, Head(anns)) THEN Head(anns)
  ELSE Find(Tail(anns), range)

RECURSIVE FindById(_, _)
\* annotations.find((a) => a.id === id) ?? null
FindById(anns, id) ==
  IF anns = << >> THEN NoAnnotation
  ELSE IF Head(anns).id = id THEN Head(anns)
  ELSE FindById(Tail(anns), id)

(***************************************************************************)
(* The rendered document.  Every entry of the conversation is rendered in  *)
(* order: a user entry as its content, a pending assistant entry as        *)
(* "Thinking", any other assistant entry as an AssistantMessageView whose  *)
(* text nodes are the segments of buildSegments (the inline markdown       *)
(* rendering is taken to keep the characters of a segment).                *)
(***************************************************************************)
Entry(id) ==
  conversation[CHOOSE i \in 1..Len(conversation) : conversation[i].id = id]

Rendered(e) == e.role = "assistant" /\ ~e.pending

RenderedIds ==
  { conversation[i].id : i \in { j \in 1..Len(conversation) : Rendered(conversation[j]) } }

\* const segments = buildSegments(messagePlainText, annotations)
SegmentsOf(e) == buildSegments(e.content, Get(annotationsByMessage, e.id))

DomText(e) ==
  IF e.role = "user" THEN e.content
  ELSE IF e.pending THEN ThinkingText
  ELSE LET segs == SegmentsOf(e)
       IN  Concat([i \in 1..Len(segs) |-> segs[i].text])

DocText == Concat([i \in 1..Len(conversation) |-> DomText(conversation[i])])

RECURSIVE Sum(_)
Sum(ns) == IF ns = << >> THEN 0 ELSE Head(ns) + Sum(Tail(ns))

\* the number of characters of the document before the container of entry id
ContainerStart(id) ==
  LET i == CHOOSE j \in 1..Len(conversation) : conversation[j].id = id
  IN  Sum([j \in 1..(i - 1) |-> Len(DomText(conversation[j]))])

\* a boundary point of a range: a character offset inside an entry's container
DocOffset(point) == ContainerStart(point.msg) + point.off

(***************************************************************************)
(* getOffsetsFromRange.  measure sets a range from the start of the        *)
(* container to the point and takes the length of its text: a point before *)
(* the container collapses that range (length 0), a point after the        *)
(* container measures past the container's own text.                       *)
(***************************************************************************)
measure(container, point) ==
  Max(0, DocOffset(point) - ContainerStart(container))

getOffsetsFromRange(container, range) ==
  LET start == measure(container, range.start)
      end   == measure(container, range.end)
  IN  IF start <= end THEN [start |-> start, end |-> end]
      ELSE [start |-> end, end |-> start]

\* rawRange.toString()
RangeText(range) == Slice(DocText, DocOffset(range.start), DocOffset(range.end))

Collapsed(sel) == sel.start = sel.end

Point(msg, off) == [msg |-> msg, off |-> off]
Sel(start, end) == [start |-> start, end |-> end, ranges |-> 1]

\* the offsets of SelOffsets that lie in the container of message m
OffsetsIn(m) ==
  LET len == Len(DomText(Entry(m)))
  IN  { o \in SelOffsets : o <= len }

\* the offset at which a selection that spans two containers begins and ends
CrossOffset == 5

(***************************************************************************)
(* The selections a pointer gesture that ends over container m can leave:  *)
(* a range inside m, a caret in m (one stands for all), a range from one   *)
(* container to a later one, with one of its boundary points in m, or,     *)
(* when the gesture selects nothing (a touch that scrolls), the range that *)
(* was selected in another container before it.                            *)
(***************************************************************************)
GestureSelections(m) ==
  LET offs == OffsetsIn(m)
      at   == ContainerStart(m)
  IN  { Sel(Point(m, p[1]), Point(m, p[2])) :
          p \in { q \in offs \X offs : q[1] < q[2] } }
      \cup { Sel(Point(m, 0), Point(m, 0)) }
      \cup { IF ContainerStart(n) > at
             THEN Sel(Point(m, CrossOffset), Point(n, CrossOffset))
             ELSE Sel(Point(n, CrossOffset), Point(m, CrossOffset)) :
             n \in RenderedIds \ { m } }
      \cup { Sel(Point(n, 0), Point(n, CrossOffset)) : n \in RenderedIds \ { m } }

\* no annotation was just inserted
NoInsert == [id |-> NoId, before |-> << >>]

(***************************************************************************)
(* range is the pending range a commit was made with.  inserted names the  *)
(* annotation the handler inserted, with the store the insert was applied  *)
(* to; a click on that annotation's span keeps it.                         *)
(***************************************************************************)
Last(op, id, messageId) ==
  [op |-> op, id |-> id, messageId |-> messageId, range |-> NoRange,
   inserted |-> NoInsert]

\* a clear that leaves the note text and the mode of the toolbar
clearSelectionKeepingNote ==
  /\ pendingRange' = NoRange
  /\ toolbarPosition' = NoPosition
  /\ editingAnnotationId' = NoId
  /\ selectedText' = << >>
  /\ selection' = NoSelection
  /\ UNCHANGED << toolbarNoteText, toolbarMode >>

(***************************************************************************)
(* clearSelection: the session fields are reset and the browser selection  *)
(* is emptied (removeAllRanges).                                           *)
(***************************************************************************)
clearSelection ==
  /\ pendingRange' = NoRange
  /\ toolbarPosition' = NoPosition
  /\ toolbarNoteText' = << >>
  /\ editingAnnotationId' = NoId
  /\ toolbarMode' = "cta"
  /\ selectedText' = << >>
  /\ selection' = NoSelection

(***************************************************************************)
(* handleSelectRange, called by a deferred run.  targetAnnotations is      *)
(* annotationsByMessage[targetMessageId] of the render the run's closure   *)
(* was made in.                                                            *)
(***************************************************************************)
\* a handler that opens every session in mode cta
handleSelectRangeCta(range, position, selected, targetMessageId, targetPlainText, targetAnnotations) ==
  LET overlapping == Find(targetAnnotations, range)
      found       == overlapping # NoAnnotation
  IN  /\ pendingRange' = range
      /\ toolbarPosition' = position
      /\ activeMessageId' = targetMessageId
      /\ activeMessagePlainText' = targetPlainText
      /\ toolbarMode' = "cta"
      /\ editingAnnotationId' = IF found THEN overlapping.id ELSE NoId
      /\ toolbarNoteText' = IF found THEN overlapping.noteText ELSE << >>
      /\ selectedText' = IF found THEN overlapping.snippet ELSE selected

handleSelectRange(range, position, selected, targetMessageId, targetPlainText, targetAnnotations) ==
  LET overlapping == Find(targetAnnotations, range)
      found       == overlapping # NoAnnotation
  IN  /\ pendingRange' = range
      /\ toolbarPosition' = position
      /\ activeMessageId' = targetMessageId
      /\ activeMessagePlainText' = targetPlainText
      /\ toolbarMode' = IF found THEN "note" ELSE "cta"
      /\ editingAnnotationId' = IF found THEN overlapping.id ELSE NoId
      /\ toolbarNoteText' = IF found THEN overlapping.noteText ELSE << >>
      /\ selectedText' = IF found THEN overlapping.snippet ELSE selected

(***************************************************************************)
(* handleSelection of AssistantMessageView for message m, called by the    *)
(* pointer-up, mouse-up or touch-end of a gesture that leaves the browser  *)
(* selection sel: run is handed to requestAnimationFrame.  The closure run *)
(* keeps the props of this render: the message and its annotations.        *)
(***************************************************************************)
\* a pointer event that also empties the message's set
handleSelectionStoring(m, sel) ==
  /\ Len(deferred) < MaxDeferred
  /\ selection' = sel
  /\ deferred' = Append(deferred,
                   [messageId |-> m, plainText |-> Entry(m).content,
                    annotations |-> Get(annotationsByMessage, m)])
  /\ annotationsByMessage' = Put(annotationsByMessage, m, << >>)
  /\ last' = Last("handleSelection", NoId, m)
  /\ UNCHANGED << sessionVars, conversation, activeMessageId,
                  activeMessagePlainText, composerValue,
                  isSending, nextId, segVars >>

handleSelection(m, sel) ==
  /\ Len(deferred) < MaxDeferred
  /\ selection' = sel
  /\ deferred' = Append(deferred,
                   [messageId |-> m, plainText |-> Entry(m).content,
                    annotations |-> Get(annotationsByMessage, m)])
  /\ last' = Last("handleSelection", NoId, m)
  /\ UNCHANGED << sessionVars, conversation, activeMessageId,
                  activeMessagePlainText, annotationsByMessage, composerValue,
                  isSending, nextId, segVars >>

(***************************************************************************)
(* run, the deferred part of handleSelection.  The browser selection is    *)
(* read by run alone, and the gesture before a run sets it: once no run is *)
(* waiting its value is of no consequence and is not kept.                 *)
(***************************************************************************)
Kept(sel) == IF Len(deferred) > 1 THEN sel ELSE NoSelection

runBody ==
  /\ deferred # << >>
  /\ deferred' = Tail(deferred)
  /\ LET closure == Head(deferred)
         offsets == getOffsetsFromRange(closure.messageId, selection)
     IN  IF selection.ranges = 0
         THEN /\ last' = Last("run:none", NoId, closure.messageId)
              /\ selection' = Kept(selection)
              /\ UNCHANGED << sessionVars, activeMessageId,
                              activeMessagePlainText >>
         ELSE IF Collapsed(selection)
         THEN /\ clearSelection
              /\ last' = Last("run:collapsed", NoId, closure.messageId)
              /\ UNCHANGED << activeMessageId, activeMessagePlainText >>
         ELSE IF offsets.start = offsets.end
         THEN /\ last' = Last("run:empty", NoId, closure.messageId)
              /\ selection' = Kept(selection)
              /\ UNCHANGED << sessionVars, activeMessageId,
                              activeMessagePlainText >>
         ELSE /\ handleSelectRange(offsets, SomePosition, RangeText(selection),
                                   closure.messageId, closure.plainText,
                                   closure.annotations)
              /\ last' = Last("handleSelectRange", NoId, closure.messageId)
              /\ selection' = Kept(selection)

run ==
  /\ runBody
  /\ UNCHANGED << conversation, annotationsByMessage, composerValue, isSending,
                  nextId, segVars >>

(***************************************************************************)
(* The toolbar is rendered while toolbarPosition is set; its buttons are   *)
(* those of the mode.                                                      *)
(***************************************************************************)
ToolbarShown == toolbarPosition # NoPosition

\* a request that also drops the selected text
beginNoteDroppingText ==
  /\ ToolbarShown
  /\ toolbarMode = "cta"
  /\ toolbarMode' = "note"
  /\ selectedText' = << >>
  /\ last' = Last("beginNote", NoId, activeMessageId)
  /\ UNCHANGED << pendingRange, toolbarPosition, toolbarNoteText,
                  editingAnnotationId, conversation,
                  activeMessageId, activeMessagePlainText, annotationsByMessage,
                  composerValue, isSending, nextId, selection, deferred, segVars >>

\* the "Ask ChatGPT" button of the cta toolbar
beginNote ==
  /\ ToolbarShown
  /\ toolbarMode = "cta"
  /\ toolbarMode' = "note"
  /\ last' = Last("beginNote", NoId, activeMessageId)
  /\ UNCHANGED << pendingRange, toolbarPosition, toolbarNoteText,
                  editingAnnotationId, selectedText, conversation,
                  activeMessageId, activeMessagePlainText, annotationsByMessage,
                  composerValue, isSending, nextId, selection, deferred, segVars >>

\* onChange of the note field
setToolbarNoteText(value) ==
  /\ ToolbarShown
  /\ toolbarMode = "note"
  /\ toolbarNoteText # value
  /\ toolbarNoteText' = value
  /\ last' = Last("setToolbarNoteText", NoId, activeMessageId)
  /\ UNCHANGED << pendingRange, toolbarPosition, editingAnnotationId,
                  toolbarMode, selectedText, conversation, activeMessageId,
                  activeMessagePlainText, annotationsByMessage, composerValue,
                  isSending, nextId, selection, deferred, segVars >>

\* onCancel of the toolbar
cancel ==
  /\ ToolbarShown
  /\ clearSelection
  /\ last' = Last("cancel", NoId, activeMessageId)
  /\ UNCHANGED << conversation, activeMessageId, activeMessagePlainText,
                  annotationsByMessage, composerValue, isSending, nextId,
                  deferred, segVars >>

\* handleOutside: a mouse-down outside the toolbar while the toolbar is shown
handleOutside ==
  /\ ToolbarShown
  /\ clearSelection
  /\ last' = Last("handleOutside", NoId, activeMessageId)
  /\ UNCHANGED << conversation, activeMessageId, activeMessagePlainText,
                  annotationsByMessage, composerValue, isSending, nextId,
                  deferred, segVars >>

(***************************************************************************)
(* saveAnnotation, the toolbar's confirm button (disabled while            *)
(* pendingRange is null).  The new annotation's createdAt is Date.now();   *)
(* the clock is read as the number of ids generated so far.                *)
(***************************************************************************)
\* a resolution that prefers the slice of the plain text to the selected text
SnippetOfRangeFirst(selected, plainText, range) ==
  LET snippetFromSelection == Trim(selected)
      snippetFromRange     == Slice(plainText, range.start, range.end)
  IN  IF Len(snippetFromRange) > 0 THEN snippetFromRange
      ELSE snippetFromSelection

SnippetOf(selected, plainText, range) ==
  LET snippetFromSelection == Trim(selected)
      snippetFromRange     == Slice(plainText, range.start, range.end)
  IN  IF Len(snippetFromSelection) > 0 THEN snippetFromSelection
      ELSE IF Len(snippetFromRange) > 0 THEN snippetFromRange
      ELSE << >>

\* snippet || annotation.snippet || snippetFromRange
UpdatedSnippet(snippet, annotation, snippetFromRange) ==
  IF snippet # << >> THEN snippet
  ELSE IF annotation.snippet # << >> THEN annotation.snippet
  ELSE snippetFromRange

\* an update that stores the note under the id when no annotation has it
UpdateNoteUpsert(existing, id, trimmed, snippet, snippetFromRange) ==
  IF id \in Ids(existing)
  THEN [i \in 1..Len(existing) |->
          IF existing[i].id = id
          THEN [existing[i] EXCEPT
                  !.noteText = trimmed,
                  !.snippet = UpdatedSnippet(snippet, existing[i], snippetFromRange)]
          ELSE existing[i]]
  ELSE Append(existing, Annotation(id, Undefined, 0, 0, trimmed, snippet, 0))

\* the map of the update branch without its test of the id
UpdateNoteAll(existing, id, trimmed, snippet, snippetFromRange) ==
  [i \in 1..Len(existing) |->
     [existing[i] EXCEPT
        !.noteText = trimmed,
        !.snippet = UpdatedSnippet(snippet, existing[i], snippetFromRange)]]

UpdateNote(existing, id, trimmed, snippet, snippetFromRange) ==
  [i \in 1..Len(existing) |->
     IF existing[i].id = id
     THEN [existing[i] EXCEPT
             !.noteText = trimmed,
             !.snippet = UpdatedSnippet(snippet, existing[i], snippetFromRange)]
     ELSE existing[i]]

\* the new annotation takes the id of the message
NewAnnotationStaleId(id, messageId, range, trimmed, snippet) ==
  Annotation(messageId, messageId, range.start, range.end, trimmed, snippet, id)

NewAnnotation(id, messageId, range, trimmed, snippet) ==
  Annotation(id, messageId, range.start, range.end, trimmed, snippet, id)

\* budget bounds the ids of a run of the model; it is no part of the handler
saveAnnotationWithin(budget) ==
  /\ ToolbarShown
  /\ toolbarMode = "note"
  /\ pendingRange # NoRange
  /\ LET trimmed  == Trim(toolbarNoteText)
         snippet  == SnippetOf(selectedText, activeMessagePlainText, pendingRange)
         fromRange == Slice(activeMessagePlainText, pendingRange.start,
                            pendingRange.end)
         existing == Get(annotationsByMessage, activeMessageId)
     IN  IF editingAnnotationId # NoId
         THEN /\ annotationsByMessage' =
                   Put(annotationsByMessage, activeMessageId,
                       UpdateNote(existing, editingAnnotationId, trimmed,
                                  snippet, fromRange))
              /\ nextId' = nextId
              /\ last' = [Last("saveAnnotation:update", editingAnnotationId,
                               activeMessageId) EXCEPT !.range = pendingRange]
         ELSE /\ budget
              /\ annotationsByMessage' =
                   Put(annotationsByMessage, activeMessageId,
                       Append(existing,
                              NewAnnotation(nextId, activeMessageId, pendingRange,
                                            trimmed, snippet)))
              /\ nextId' = nextId + 1
              /\ last' = [Last("saveAnnotation:insert", nextId, activeMessageId)
                             EXCEPT !.range = pendingRange,
                                    !.inserted = [id |-> nextId,
                                                  before |-> annotationsByMessage]]
  /\ clearSelection
  /\ UNCHANGED << conversation, activeMessageId, activeMessagePlainText,
                  composerValue, isSending, deferred, segVars >>

saveAnnotation == saveAnnotationWithin(nextId <= MaxId)

(***************************************************************************)
(* deleteAnnotationForMessage(messageId, id).                              *)
(***************************************************************************)
deleteAnnotationForMessage(messageId, id) ==
  /\ annotationsByMessage' =
       Put(annotationsByMessage, messageId,
           Filter(Get(annotationsByMessage, messageId), id))
  /\ IF messageId = activeMessageId
     THEN clearSelection
     ELSE UNCHANGED << sessionVars, selection >>
  /\ UNCHANGED << conversation, activeMessageId, activeMessagePlainText,
                  composerValue, isSending, nextId, deferred, segVars >>

\* the toolbar's Delete button: onDelete = () => deleteAnnotation(editingAnnotationId)
deleteAnnotation ==
  /\ ToolbarShown
  /\ toolbarMode = "note"
  /\ editingAnnotationId # NoId
  /\ deleteAnnotationForMessage(activeMessageId, editingAnnotationId)
  /\ last' = Last("deleteAnnotation", editingAnnotationId, activeMessageId)

(***************************************************************************)
(* The close button of a composer chip.  ChatComposer calls                *)
(* onDeleteAnnotation(annotation.id) with one argument, so the messageId   *)
(* of ChatExperience's (id, messageId) => ... is undefined.                *)
(***************************************************************************)
chipDelete(id) ==
  /\ id \in Ids(allAnnotations)
  /\ deleteAnnotationForMessage(Undefined, id)
  /\ last' = Last("chipDelete", id, FindById(allAnnotations, id).messageId)

(***************************************************************************)
(* focusAnnotation(id), the click handler of the span of an annotated      *)
(* segment.  The span carries the annotation's start and end; the note and *)
(* the snippet are looked up in the set of the active message.             *)
(***************************************************************************)
ClickableIds(e) ==
  LET segs == SegmentsOf(e)
  IN  { segs[i].annotation.id :
          i \in { j \in 1..Len(segs) :
                    segs[j].annotation # NoAnnotation /\ segs[j].text # << >> } }

focusAnnotation(m, id) ==
  /\ m \in RenderedIds
  /\ id \in ClickableIds(Entry(m))
  /\ LET span       == FindById(Get(annotationsByMessage, m), id)
         annotation == FindById(Get(annotationsByMessage, activeMessageId), id)
     IN  /\ toolbarPosition' = SomePosition
         /\ pendingRange' = [start |-> span.start, end |-> span.end]
         /\ toolbarNoteText' =
              IF annotation # NoAnnotation THEN annotation.noteText ELSE << >>
         /\ editingAnnotationId' = id
         /\ toolbarMode' = "note"
         /\ selectedText' =
              IF annotation # NoAnnotation THEN annotation.snippet ELSE << >>
  /\ last' = [Last("focusAnnotation", id, m) EXCEPT
                 !.inserted = IF last.inserted.id = id THEN last.inserted
                              ELSE NoInsert]
  /\ UNCHANGED << conversation, activeMessageId, activeMessagePlainText,
                  annotationsByMessage, composerValue, isSending, nextId,
                  selection, deferred, segVars >>

(***************************************************************************)
(* sendPrompt.  The user entry's content is fullUserMessage: the trimmed   *)
(* composer text and, under "Notes:", one numbered line for each           *)
(* annotation of allAnnotations.                                           *)
(***************************************************************************)
RECURSIVE Digits(_)
\* `${n}` of a number n >= 0
Digits(n) ==
  LET digit(d) == CASE d = 0 -> "0" [] d = 1 -> "1" [] d = 2 -> "2" [] d = 3 -> "3"
                    [] d = 4 -> "4" [] d = 5 -> "5" [] d = 6 -> "6" [] d = 7 -> "7"
                    [] d = 8 -> "8" [] OTHER -> "9"
  IN  IF n < 10 THEN << digit(n) >> ELSE Digits(n \div 10) \o << digit(n % 10) >>

\* the em dash (U+2014) of a note line, one character
EmDash == "--"

\* an entry that leaves the note out
NoteLineBare(ann, idx) ==
  Digits(idx + 1) \o << ")", " ", "\"" >> \o ann.snippet \o << "\"" >>

\* `${idx + 1}) "${snippet}"${label ? ` <em dash> ${label}` : ""}`
NoteLine(ann, idx) ==
  LET label == Trim(ann.noteText)
  IN  Digits(idx + 1) \o << ")", " ", "\"" >> \o ann.snippet \o << "\"" >>
      \o (IF label # << >> THEN << " ", EmDash, " " >> \o label ELSE << >>)

RECURSIVE Join(_, _)
\* Array.prototype.join
Join(parts, sep) ==
  IF parts = << >> THEN << >>
  ELSE IF Len(parts) = 1 THEN parts[1]
  ELSE parts[1] \o sep \o Join(Tail(parts), sep)

\* String.prototype.includes
Contains(s, sub) ==
  \E i \in 0..(Len(s) - Len(sub)) : Slice(s, i, i + Len(sub)) = sub

allNoteContext(anns) ==
  Join([i \in 1..Len(anns) |-> NoteLine(anns[i], i - 1)], << "\n" >>)

(***************************************************************************)
(* buildFollowupPrompt (components/buildFollowupPrompt.ts).  No module      *)
(* imports it: sendPrompt formats its message itself, above.                *)
(***************************************************************************)
NoAnnotationsPrompt ==
  << "P", "l", "e", "a", "s", "e", " ", "s", "h", "a", "r", "e", " ",
     "y", "o", "u", "r", " ", "q", "u", "e", "s", "t", "i", "o", "n",
     "s", " ", "o", "r", " ", "e", "d", "i", "t", "s", " ", "a", "b",
     "o", "u", "t", " ", "t", "h", "e", " ", "p", "r", "e", "v", "i",
     "o", "u", "s", " ", "r", "e", "s", "p", "o", "n", "s", "e", "." >>

HighlightsHeader ==
  << "P", "l", "e", "a", "s", "e", " ", "a", "d", "d", "r", "e", "s",
     "s", " ", "m", "y", " ", "h", "i", "g", "h", "l", "i", "g", "h",
     "t", "s", " ", "f", "r", "o", "m", " ", "y", "o", "u", "r", " ",
     "p", "r", "e", "v", "i", "o", "u", "s", " ", "a", "n", "s", "w",
     "e", "r", ":", "\n" >>

HighlightsFooter ==
  << "\n", "\n", "U", "s", "e", " ", "t", "h", "e", " ", "n", "o", "t",
     "e", " ", "b", "e", "s", "i", "d", "e", " ", "e", "a", "c", "h",
     " ", "p", "a", "s", "s", "a", "g", "e", " ", "t", "o", " ", "g",
     "u", "i", "d", "e", " ", "f", "i", "x", "e", "s", "." >>

NoNoteText ==
  << "(", "n", "o", " ", "n", "o", "t", "e", " ", "t", "e", "x", "t",
     ")" >>

RECURSIVE CollapseWhitespace(_)
\* replace(/\s+/g, " ")
CollapseWhitespace(s) ==
  IF s = << >> THEN << >>
  ELSE IF Head(s) \in Whitespace
       THEN << " " >> \o CollapseWhitespace(TrimStart(s))
       ELSE << Head(s) >> \o CollapseWhitespace(Tail(s))

\* `${index + 1}) "${cleanPassage}" <em dash> ${noteText}`
FollowupItem(annotation, index, messagePlainText) ==
  LET passageSource == IF annotation.snippet # << >>
                       THEN annotation.snippet
                       ELSE Slice(messagePlainText, annotation.start,
                                  annotation.end)
      passage       == IF Len(passageSource) > 160
                       THEN Slice(passageSource, 0, 157) \o << ".", ".", "." >>
                       ELSE passageSource
      cleanPassage  == Trim(CollapseWhitespace(passage))
      noteText      == IF Trim(annotation.noteText) # << >>
                       THEN Trim(annotation.noteText)
                       ELSE NoNoteText
  IN  Digits(index + 1) \o << ")", " ", "\"" >> \o cleanPassage
      \o << "\"", " ", EmDash, " " >> \o noteText

buildFollowupPrompt(annotations, messagePlainText) ==
  IF annotations = << >>
  THEN NoAnnotationsPrompt
  ELSE LET sorted == SortByStart(annotations)
           items  == Join([i \in 1..Len(sorted) |->
                             FollowupItem(sorted[i], i - 1, messagePlainText)],
                          << "\n" >>)
       IN  HighlightsHeader \o items \o HighlightsFooter

\* the message with the composer text as typed, not trimmed
fullUserMessageUntrimmed(value, anns) ==
  LET context  == allNoteContext(anns)
      notes    == IF context # << >>
                  THEN << "N", "o", "t", "e", "s", ":", "\n" >> \o context
                  ELSE << >>
  IN  Join(SelectSeq(<< value, notes >>, LAMBDA part : part # << >>),
           << "\n", "\n" >>)

\* [userText, notes].filter(Boolean).join("\n\n")
fullUserMessage(value, anns) ==
  LET userText == Trim(value)
      context  == allNoteContext(anns)
      notes    == IF context # << >>
                  THEN << "N", "o", "t", "e", "s", ":", "\n" >> \o context
                  ELSE << >>
  IN  Join(SelectSeq(<< userText, notes >>, LAMBDA part : part # << >>),
           << "\n", "\n" >>)

ChatEntry(id, role, content, pending) ==
  [id |-> id, role |-> role, content |-> content, pending |-> pending]

Sends == Cardinality({ i \in 1..Len(conversation) : conversation[i].role = "user" })

\* a clear that empties the first message's set alone
ClearedFirst(store) == IF store = << >> THEN << >> ELSE Tail(store)

\* setAnnotationsByMessage({})
Cleared(store) == << >>

\* a guard that refuses nothing
RefusedNever(sending) == FALSE

\* if (isSending) return
Refused(sending) == sending

\* budget bounds the sends of a run of the model; it is no part of the handler
sendPromptWithin(budget) ==
  LET message == fullUserMessage(composerValue, allAnnotations)
  IN  IF Refused(isSending)
      THEN /\ last' = Last("sendPrompt:sending", NoId, activeMessageId)
           /\ UNCHANGED << sessionVars, conversation, activeMessageId,
                           activeMessagePlainText, annotationsByMessage,
                           composerValue, isSending, nextId, selection, deferred,
                           segVars >>
      ELSE IF message = << >>
      THEN /\ last' = Last("sendPrompt:empty", NoId, activeMessageId)
           /\ UNCHANGED << sessionVars, conversation, activeMessageId,
                           activeMessagePlainText, annotationsByMessage,
                           composerValue, isSending, nextId, selection, deferred,
                           segVars >>
      ELSE /\ budget
           /\ annotationsByMessage' = Cleared(annotationsByMessage)
           /\ selectedText' = << >>
           /\ pendingRange' = NoRange
           /\ toolbarPosition' = NoPosition
           /\ toolbarNoteText' = << >>
           /\ editingAnnotationId' = NoId
           /\ conversation' = conversation \o
                << ChatEntry(nextId, "user", message, FALSE),
                   ChatEntry(nextId + 1, "assistant", ThinkingText, TRUE) >>
           /\ composerValue' = << >>
           /\ isSending' = TRUE
           /\ nextId' = nextId + 2
           /\ last' = Last("sendPrompt", NoId, nextId + 1)
           /\ UNCHANGED << toolbarMode, activeMessageId, activeMessagePlainText,
                           selection, deferred, segVars >>

\* sendPrompt while the model accepts another send
sendPrompt == sendPromptWithin(Sends < MaxSends /\ nextId + 1 <= MaxId)

\* onChange of the composer's textarea
setComposerValue(value) ==
  /\ composerValue # value
  /\ composerValue' = value
  /\ last' = Last("setComposerValue", NoId, activeMessageId)
  /\ UNCHANGED << sessionVars, conversation, activeMessageId,
                  activeMessagePlainText, annotationsByMessage, isSending, nextId,
                  selection, deferred, segVars >>

(***************************************************************************)
(* finalize: the timer callback of the fetch's then branch (a reply) and   *)
(* of its catch branch (a failed request, an error status, an empty        *)
(* reply).  The catch branch resets neither toolbarMode nor selectedText.  *)
(***************************************************************************)
PendingEntries ==
  { conversation[i] : i \in { j \in 1..Len(conversation) : conversation[j].pending } }

\* a settle that writes the content and leaves the entry pending
SettleContent(id, content) ==
  [i \in 1..Len(conversation) |->
     IF conversation[i].id = id
     THEN [conversation[i] EXCEPT !.content = content]
     ELSE conversation[i]]

Settle(id, content) ==
  [i \in 1..Len(conversation) |->
     IF conversation[i].id = id
     THEN [conversation[i] EXCEPT !.content = content, !.pending = FALSE]
     ELSE conversation[i]]

finalizeReply(assistantText) ==
  /\ isSending
  /\ \E entry \in PendingEntries :
       /\ conversation' = Settle(entry.id, assistantText)
       /\ activeMessageId' = entry.id
       /\ activeMessagePlainText' = assistantText
       /\ annotationsByMessage' = << [key |-> entry.id, annotations |-> << >>] >>
       /\ last' = Last("finalize:reply", NoId, entry.id)
  /\ toolbarMode' = "cta"
  /\ selectedText' = << >>
  /\ pendingRange' = NoRange
  /\ toolbarPosition' = NoPosition
  /\ toolbarNoteText' = << >>
  /\ editingAnnotationId' = NoId
  /\ isSending' = FALSE
  /\ UNCHANGED << composerValue, nextId, selection, deferred, segVars >>

finalizeFallback ==
  /\ isSending
  /\ \E entry \in PendingEntries :
       /\ conversation' = Settle(entry.id, FallbackText)
       /\ activeMessageId' = entry.id
       /\ activeMessagePlainText' = FallbackText
       /\ annotationsByMessage' = << [key |-> entry.id, annotations |-> << >>] >>
       /\ last' = Last("finalize:fallback", NoId, entry.id)
  /\ pendingRange' = NoRange
  /\ toolbarPosition' = NoPosition
  /\ toolbarNoteText' = << >>
  /\ editingAnnotationId' = NoId
  /\ isSending' = FALSE
  /\ UNCHANGED << toolbarMode, selectedText, composerValue, nextId, selection,
                  deferred, segVars >>

(***************************************************************************)
(* The state after ChatExperience is constructed, and its handlers.        *)
(***************************************************************************)
ChatInit ==
  /\ conversation = << ChatEntry(SampleId, "assistant", SampleText, FALSE) >>
  /\ activeMessageId = SampleId
  /\ activeMessagePlainText = SampleText
  /\ annotationsByMessage = << [key |-> SampleId, annotations |-> << >>] >>
  /\ pendingRange = NoRange
  /\ toolbarPosition = NoPosition
  /\ toolbarNoteText = << >>
  /\ editingAnnotationId = NoId
  /\ toolbarMode = "cta"
  /\ selectedText = << >>
  /\ composerValue = << >>
  /\ isSending = FALSE
  /\ nextId = SampleId + 1
  /\ selection = NoSelection
  /\ deferred = << >>
  /\ last = Last("init", NoId, SampleId)

NoCall == [text |-> << >>, annotations |-> << >>]
NoResult == [by |-> "none", segments |-> << >>]

Init ==
  /\ ChatInit
  /\ segIn = NoCall
  /\ segOut = NoResult

Next ==
  \/ \E m \in RenderedIds : \E sel \in GestureSelections(m) : handleSelection(m, sel)
  \/ run
  \/ beginNote
  \/ \E value \in NoteInputs : setToolbarNoteText(value)
  \/ cancel
  \/ handleOutside
  \/ saveAnnotation
  \/ deleteAnnotation
  \/ \E id \in Ids(allAnnotations) : chipDelete(id)
  \/ \E m \in RenderedIds : \E id \in ClickableIds(Entry(m)) : focusAnnotation(m, id)
  \/ \E value \in ComposerInputs : setComposerValue(value)
  \/ sendPrompt
  \/ \E assistantText \in ReplyTexts : finalizeReply(assistantText)
  \/ finalizeFallback

Spec == Init /\ [][Next]_vars

(***************************************************************************)
(* The segment builder on its own: a text, a list of annotations with      *)
(* 0 <= start < end <= length(text) in any order, overlapping or not, and  *)
(* one call of either buildSegments.                                       *)
(***************************************************************************)
Letters == << "a", "b", "c", "d", "e", "f", "g", "h", "i", "j", "k", "l", "m",
              "n", "o", "p" >>

SegTexts == { SubSeq(Letters, 1, n) : n \in 0..SegMaxLen }

SegRanges(text) ==
  { r \in [start : 0..Len(text), end : 0..Len(text)] : r.start < r.end }

SegAnnotations(text) ==
  UNION { { [i \in 1..n |->
               Annotation(i, SampleId, rs[i].start, rs[i].end, << >>,
                          Slice(text, rs[i].start, rs[i].end), i)] :
            rs \in [1..n -> SegRanges(text)] } : n \in 0..SegMaxAnns }

\* the worked example of the specification: {0,10} and {5,15} over 15 characters
ExampleText == SubSeq(Letters, 1, 15)
ExampleAnnotations ==
  << Annotation(1, SampleId, 0, 10, << >>, Slice(ExampleText, 0, 10), 1),
     Annotation(2, SampleId, 5, 15, << >>, Slice(ExampleText, 5, 15), 2) >>

SegInputs ==
  UNION { { [text |-> text, annotations |-> anns] : anns \in SegAnnotations(text) } :
          text \in SegTexts }

SegInit ==
  /\ ChatInit
  /\ segIn \in SegInputs \cup { [text |-> ExampleText, annotations |-> ExampleAnnotations] }
  /\ segOut = NoResult

\* buildSegments as AssistantMessageView.tsx (and part_002) has it
BuildSegments ==
  /\ segOut = NoResult
  /\ segOut' = [by |-> "components",
                segments |-> buildSegments(segIn.text, segIn.annotations)]
  /\ UNCHANGED << segIn, sessionVars, chatVars >>

\* buildSegments as part_001 has it
BuildSegmentsCursor ==
  /\ segOut = NoResult
  /\ segOut' = [by |-> "part_001",
                segments |-> buildSegmentsCursor(segIn.text, segIn.annotations)]
  /\ UNCHANGED << segIn, sessionVars, chatVars >>

SegNext == BuildSegments \/ BuildSegmentsCursor

SegSpec == SegInit /\ [][SegNext]_vars


(***************************************************************************)
(* The snippet of a new annotation on its own: a selected text, the plain  *)
(* text of the active message and a pending range, in or past the text,    *)
(* and the resolution saveAnnotation makes of them.                        *)
(***************************************************************************)
SnipSelected ==
  { << >>, << " " >>, << "q", "u", "i", "c", "k" >>,
    << " ", "q", "u", "i", "c", "k" >>, << "u", "i", "c", "k", " " >> }

SnipTexts ==
  { << >>, << "T", "h", "e", " ", "q", "u", "i", "c", "k", " ", "b", "r", "o", "w",
              "n", " ", "f", "o", "x" >> }

SnipOffsets == { 0, 4, 5, 9, 10, 19, 25 }

SnipInit ==
  /\ ChatInit
  /\ segIn \in { [selected |-> s, text |-> t, range |-> [start |-> r[1], end |-> r[2]]] :
                   s \in SnipSelected, t \in SnipTexts,
                   r \in { q \in SnipOffsets \X SnipOffsets : q[1] < q[2] } }
  /\ segOut = NoResult

\* the snippet saveAnnotation stores with a new annotation
ResolveSnippet ==
  /\ segOut = NoResult
  /\ segOut' = [by |-> "saveAnnotation",
                snippet |-> SnippetOf(segIn.selected, segIn.text, segIn.range)]
  /\ UNCHANGED << segIn, sessionVars, chatVars >>

SnipSpec == SnipInit /\ [][ResolveSnippet]_vars

(***************************************************************************)
(* The offset mapper on its own.  A container is rendered as one span for  *)
(* each segment, each span holding one text node: nodes gives the lengths  *)
(* of the text nodes in document order.  A boundary point of a range is a  *)
(* text node with a character offset, a span with a child index (0 or 1)   *)
(* or the container itself with a child index.  A selection is made from   *)
(* an anchor to a focus, in either direction; getRangeAt(0) gives the      *)
(* range between them with its start before its end in document order.     *)
(***************************************************************************)
MapMaxNodes == 2
MapMaxLen == 2

NodeLists == UNION { [1..n -> 1..MapMaxLen] : n \in 0..MapMaxNodes }

TextPoint(k, o) == [kind |-> "text", node |-> k, offset |-> o]
SpanPoint(k, o) == [kind |-> "span", node |-> k, offset |-> o]
RootPoint(o) == [kind |-> "root", node |-> 0, offset |-> o]

TextPoints(nodes) ==
  UNION { { TextPoint(k, o) : o \in 0..nodes[k] } : k \in 1..Len(nodes) }

BoundaryPoints(nodes) ==
  TextPoints(nodes)
    \cup { SpanPoint(k, o) : k \in 1..Len(nodes), o \in 0..1 }
    \cup { RootPoint(o) : o \in 0..Len(nodes) }

\* the number of characters of the container before its k-th text node
TextBefore(nodes, k) == Sum(SubSeq(nodes, 1, k - 1))

\* the number of characters of the container before a boundary point
TextPosition(nodes, p) ==
  CASE p.kind = "text" -> TextBefore(nodes, p.node) + p.offset
    [] p.kind = "span" -> TextBefore(nodes, p.node + p.offset)
    [] OTHER           -> TextBefore(nodes, p.offset + 1)

\* the place of a boundary point in document order
TreeOrder(nodes, p) ==
  LET base(k) == TextBefore(nodes, k) + 4 * (k - 1)
  IN  CASE p.kind = "text" -> base(p.node) + 2 + p.offset
        [] p.kind = "span" -> base(p.node) + 1 + p.offset * (nodes[p.node] + 2)
        [] OTHER           -> base(p.offset + 1)

\* selection.getRangeAt(0)
getRangeAt(nodes, anchor, focus) ==
  IF TreeOrder(nodes, anchor) <= TreeOrder(nodes, focus)
  THEN [start |-> anchor, end |-> focus]
  ELSE [start |-> focus, end |-> anchor]

\* the two offsets as they were found
Unordered(start, end) == [start |-> start, end |-> end]

\* start <= end ? { start, end } : { start: end, end: start }
Ordered(start, end) ==
  IF start <= end THEN [start |-> start, end |-> end]
  ELSE [start |-> end, end |-> start]

\* measure of AssistantMessageView.tsx: the length of the text of the range
\* from the start of the container to the point
measureNodes(nodes, p) == TextPosition(nodes, p)

\* getOffsetsFromRange of AssistantMessageView.tsx, on a range inside the container
getOffsetsFromRangeMeasure(nodes, range) ==
  Ordered(measureNodes(nodes, range.start), measureNodes(nodes, range.end))

NoOffset == -1

\* the node the tree walker is at: its root first (walker.currentNode), then
\* the text nodes (walker.nextNode())
WalkerNode(current) ==
  IF current = 0 THEN RootPoint(0) ELSE TextPoint(current, 0)

SameNode(p, q) == p.kind = q.kind /\ p.node = q.node

RECURSIVE WalkLoop(_, _, _, _, _, _)
\* the while loop of getOffsetsFromRange of part_002; textContent of the
\* root is the text of the whole container
WalkLoop(nodes, range, current, index, start, end) ==
  IF current > Len(nodes)
  THEN [start |-> start, end |-> end]
  ELSE LET length   == IF current = 0 THEN Sum(nodes) ELSE nodes[current]
           newStart == IF SameNode(WalkerNode(current), range.start)
                       THEN index + range.start.offset ELSE start
           atEnd    == SameNode(WalkerNode(current), range.end)
           newEnd   == IF atEnd THEN index + range.end.offset ELSE end
       IN  IF atEnd /\ newStart # NoOffset
           THEN [start |-> newStart, end |-> newEnd]
           ELSE WalkLoop(nodes, range, current + 1, index + length,
                         newStart, newEnd)

\* getOffsetsFromRange of part_002; NoRange is its null
getOffsetsFromRangeWalker(nodes, range) ==
  LET found == WalkLoop(nodes, range, 0, 0, NoOffset, NoOffset)
  IN  IF found.start = NoOffset \/ found.end = NoOffset
      THEN NoRange
      ELSE Ordered(found.start, found.end)

MapInputs ==
  UNION { { [nodes |-> nodes, anchor |-> a, focus |-> f] :
              a \in BoundaryPoints(nodes), f \in BoundaryPoints(nodes) } :
          nodes \in NodeLists }

MapInit ==
  /\ ChatInit
  /\ segIn \in MapInputs
  /\ segOut = NoResult

MapMeasure ==
  /\ segOut = NoResult
  /\ segOut' = [by |-> "components",
                offsets |-> getOffsetsFromRangeMeasure(segIn.nodes,
                              getRangeAt(segIn.nodes, segIn.anchor, segIn.focus))]
  /\ UNCHANGED << segIn, sessionVars, chatVars >>

MapWalker ==
  /\ segOut = NoResult
  /\ segOut' = [by |-> "part_002",
                offsets |-> getOffsetsFromRangeWalker(segIn.nodes,
                              getRangeAt(segIn.nodes, segIn.anchor, segIn.focus))]
  /\ UNCHANGED << segIn, sessionVars, chatVars >>

MapNext == MapMeasure \/ MapWalker

MapSpec == MapInit /\ [][MapNext]_vars

(***************************************************************************)
(* The send of a prompt on its own: a conversation, a store and a composer *)
(* text as the handlers can leave them, then sends, their replies and      *)
(* typing.  The sets of a message are in either insertion order, so the    *)
(* annotations of a store are not always in the order of their starts.     *)
(***************************************************************************)
\* entries a conversation of SendSpec grows to
MaxEntries == 7

QuickText ==
  << "T", "h", "e", " ", "q", "u", "i", "c", "k", " ", "b", "r", "o", "w", "n",
     " ", "f", "o", "x" >>
FixThis == << "f", "i", "x", " ", "t", "h", "i", "s" >>
Typo == << "t", "y", "p", "o", "?" >>

DrawnComposer == { << >>, << " " >>, << "q" >> }
DrawnNotes == { << >>, << "t" >> }
DrawnRanges == { [start |-> 0, end |-> 5], [start |-> 5, end |-> 10] }

\* the conversation after construction, and after one prompt and its reply
DrawnConversations ==
  { << ChatEntry(SampleId, "assistant", SampleText, FALSE) >>,
    << ChatEntry(SampleId, "assistant", SampleText, FALSE),
       ChatEntry(SampleId + 1, "user", << "q" >>, FALSE),
       ChatEntry(SampleId + 2, "assistant", QuickText, FALSE) >> }

\* the sets of at most two commits over distinct ranges of DrawnRanges, without ids
DrawnSets(messageId, text) ==
  LET new(range, note) ==
        NewAnnotation(NoId, messageId, range, note,
                      SnippetOf(Slice(text, range.start, range.end), text, range))
  IN  { << >> }
      \cup { << new(r, n) >> : r \in DrawnRanges, n \in DrawnNotes }
      \cup { << new(p[1], n[1]), new(p[2], n[2]) >> :
               p \in { q \in DrawnRanges \X DrawnRanges : q[1] # q[2] },
               n \in DrawnNotes \X DrawnNotes }

\* the annotations of a set with the ids first, first + 1, ... of generateId
Numbered(set, first) ==
  [i \in 1..Len(set) |->
     [set[i] EXCEPT !.id = first + i - 1, !.createdAt = first + i - 1]]

\* the stores of a conversation: the key of the last reply first, as finalize
\* leaves it, then the key of the sample message once it has a commit
DrawnStores(conv) ==
  LET lastid == conv[Len(conv)].id
      text(id) == (CHOOSE e \in { conv[i] : i \in 1..Len(conv) } : e.id = id).content
      entry(id, set, first) ==
        [key |-> id, annotations |-> Numbered(set, first)]
  IN  IF Len(conv) = 1
      THEN { << entry(SampleId, set, lastid + 1) >> :
               set \in DrawnSets(SampleId, text(SampleId)) }
      ELSE { IF other = << >>
             THEN << entry(lastid, set, lastid + 1) >>
             ELSE << entry(lastid, set, lastid + 1),
                     entry(SampleId, other, lastid + 1 + Len(set)) >> :
               set \in DrawnSets(lastid, text(lastid)),
               other \in DrawnSets(SampleId, text(SampleId)) }

\* a session in Composing over [10,15) of the active message, left by a selection
DrawnComposing(text) ==
  [pendingRange |-> [start |-> 10, end |-> 15], toolbarPosition |-> SomePosition,
   toolbarNoteText |-> << "t" >>, toolbarMode |-> "note",
   selectedText |-> Slice(text, 10, 15)]

DrawnIdle ==
  [pendingRange |-> NoRange, toolbarPosition |-> NoPosition,
   toolbarNoteText |-> << >>, toolbarMode |-> "cta", selectedText |-> << >>]

\* the worked example: "The quick brown fox", [4,9) noted "typo?", text "fix this"
QuickStore ==
  << [key |-> SampleId + 2,
      annotations |->
        << Annotation(SampleId + 3, SampleId + 2, 4, 9, Typo,
                      Slice(QuickText, 4, 9), SampleId + 3) >>] >>

\* a request in flight: the prompt "q" sent, its reply pending, and [0,5) of
\* the sample message annotated since the send
InFlightConversation ==
  << ChatEntry(SampleId, "assistant", SampleText, FALSE),
     ChatEntry(SampleId + 1, "user", << "q" >>, FALSE),
     ChatEntry(SampleId + 2, "assistant", ThinkingText, TRUE) >>

InFlightStore ==
  << [key |-> SampleId,
      annotations |->
        << Annotation(SampleId + 3, SampleId, 0, 5, << "t" >>,
                      Slice(SampleText, 0, 5), SampleId + 3) >>] >>

SendInit ==
  /\ conversation \in DrawnConversations \cup { InFlightConversation }
  /\ activeMessageId \in { conversation[i].id : i \in { j \in 1..Len(conversation) :
                                                        Rendered(conversation[j]) } }
  /\ activeMessagePlainText =
       (CHOOSE e \in { conversation[i] : i \in 1..Len(conversation) } :
           e.id = activeMessageId).content
  /\ \/ /\ conversation \in DrawnConversations
        /\ annotationsByMessage \in DrawnStores(conversation)
        /\ composerValue \in DrawnComposer
     \/ /\ conversation \in DrawnConversations
        /\ Len(conversation) = 3
        /\ annotationsByMessage = QuickStore
        /\ composerValue = FixThis
     \/ /\ conversation = InFlightConversation
        /\ annotationsByMessage = InFlightStore
        /\ composerValue \in DrawnComposer
  /\ \E session \in { DrawnIdle, DrawnComposing(activeMessagePlainText) } :
        /\ pendingRange = session.pendingRange
        /\ toolbarPosition = session.toolbarPosition
        /\ toolbarNoteText = session.toolbarNoteText
        /\ toolbarMode = session.toolbarMode
        /\ selectedText = session.selectedText
  /\ editingAnnotationId = NoId
  /\ isSending = (conversation = InFlightConversation)
  /\ nextId = conversation[Len(conversation)].id + Len(allAnnotations) + 1
  /\ selection = NoSelection
  /\ deferred = << >>
  /\ last = Last("init", NoId, activeMessageId)
  /\ segIn = NoCall
  /\ segOut = NoResult

SendNext ==
  \/ sendPromptWithin(Len(conversation) + 2 <= MaxEntries)
  \/ \E assistantText \in ReplyTexts : finalizeReply(assistantText)
  \/ finalizeFallback
  \/ \E value \in DrawnComposer : setComposerValue(value)

SendSpec == SendInit /\ [][SendNext]_vars

\* the fetch of a send settles (it resolves or rejects) and the timer it then
\* sets fires: a finalize that is due is not put off for ever
finalize == finalizeFallback \/ \E assistantText \in ReplyTexts : finalizeReply(assistantText)

SendLiveSpec == SendInit /\ [][SendNext]_vars /\ WF_vars(finalize)

(***************************************************************************)
(* The store with annotations of two messages: the conversation after one  *)
(* prompt and its reply, [0,5) of the reply and [5,10) of the sample       *)
(* message annotated, an Idle session, then every handler of the           *)
(* selection session and of the store.                                     *)
(***************************************************************************)
\* the largest id generateId gives in a run of EditSpec
MaxEditId == 6

EditConversation ==
  << ChatEntry(SampleId, "assistant", SampleText, FALSE),
     ChatEntry(SampleId + 1, "user", << "q" >>, FALSE),
     ChatEntry(SampleId + 2, "assistant", QuickText, FALSE) >>

EditStores ==
  { store \in DrawnStores(EditConversation) :
      /\ Len(store) = 2
      /\ \A i \in 1..2 :
            /\ Len(store[i].annotations) = 1
            /\ store[i].annotations[1].start = 5 * (i - 1)
            /\ \A n \in 1..Len(store[i].annotations) :
                  store[i].annotations[n].noteText = << "t" >> }

EditInit ==
  /\ conversation = EditConversation
  /\ activeMessageId \in { SampleId, SampleId + 2 }
  /\ activeMessagePlainText = Entry(activeMessageId).content
  /\ annotationsByMessage \in EditStores
  /\ pendingRange = NoRange
  /\ toolbarPosition = NoPosition
  /\ toolbarNoteText = << >>
  /\ editingAnnotationId = NoId
  /\ toolbarMode = "cta"
  /\ selectedText = << >>
  /\ composerValue = << >>
  /\ isSending = FALSE
  /\ nextId = SampleId + 3 + Len(allAnnotations)
  /\ selection = NoSelection
  /\ deferred = << >>
  /\ last = Last("init", NoId, activeMessageId)
  /\ segIn = NoCall
  /\ segOut = NoResult

EditNext ==
  \/ \E m \in RenderedIds : \E sel \in GestureSelections(m) : handleSelection(m, sel)
  \/ run
  \/ beginNote
  \/ \E value \in NoteInputs : setToolbarNoteText(value)
  \/ cancel
  \/ handleOutside
  \/ saveAnnotationWithin(nextId <= MaxEditId)
  \/ deleteAnnotation
  \/ \E id \in Ids(allAnnotations) : chipDelete(id)
  \/ \E m \in RenderedIds : \E id \in ClickableIds(Entry(m)) : focusAnnotation(m, id)

EditSpec == EditInit /\ [][EditNext]_vars

(***************************************************************************)
(* One AssistantMessageView under pointer gestures.  A gesture is a        *)
(* mouse-down over the message and the end events the browser dispatches   *)
(* for it, each calling handleSelection (touch-end through a timer of 0 ms, *)
(* taken here in its dispatch order).  segIn is the gesture in progress and *)
(* the revision of the component; segOut holds selectionProcessedRef and    *)
(* the calls of onSelectRange the gesture has made so far.  A gesture       *)
(* begins once the end events and the runs of the one before are done.      *)
(***************************************************************************)
\* gestures of a run of GestureSpec
MaxGestures == 2

EndEvents ==
  { << "pointerup", "mouseup" >>, << "pointerup", "touchend" >>,
    << "pointerup", "touchend", "mouseup" >> }

\* a range of the sample message, another, and a caret
GestureSels ==
  { Sel(Point(SampleId, 0), Point(SampleId, 5)),
    Sel(Point(SampleId, 5), Point(SampleId, 10)),
    Sel(Point(SampleId, 0), Point(SampleId, 0)) }

GestureInit ==
  /\ ChatInit
  /\ segIn \in { [by |-> by, events |-> << >>, sel |-> NoSelection, gestures |-> 0] :
                 by \in { "components", "part_001" } }
  /\ segOut = [processed |-> FALSE, applied |-> 0]

\* the mouse-down of a gesture: part_001 binds handleSelectionStart to it, and
\* ChatExperience's handleOutside hears it while the toolbar is shown
handleSelectionStart ==
  /\ segIn.events = << >>
  /\ deferred = << >>
  /\ segIn.gestures < MaxGestures
  /\ \E events \in EndEvents, sel \in GestureSels :
       segIn' = [segIn EXCEPT !.events = events, !.sel = sel, !.gestures = @ + 1]
  /\ segOut' = [processed |-> FALSE, applied |-> 0]
  /\ IF ToolbarShown THEN clearSelection ELSE UNCHANGED << sessionVars, selection >>
  /\ last' = Last("handleSelectionStart", NoId, SampleId)
  /\ UNCHANGED << conversation, activeMessageId, activeMessagePlainText,
                  annotationsByMessage, composerValue, isSending, nextId, deferred >>

\* an end event of the gesture: handleSelection hands run to requestAnimationFrame;
\* part_001 returns at once when the gesture was processed
handleSelectionEnd ==
  /\ segIn.events # << >>
  /\ segIn' = [segIn EXCEPT !.events = Tail(@)]
  /\ selection' = segIn.sel
  /\ IF segIn.by = "part_001" /\ segOut.processed
     THEN UNCHANGED deferred
     ELSE deferred' = Append(deferred,
                        [messageId |-> SampleId, plainText |-> Entry(SampleId).content,
                         annotations |-> Get(annotationsByMessage, SampleId)])
  /\ last' = Last("handleSelection", NoId, SampleId)
  /\ UNCHANGED << sessionVars, conversation, activeMessageId, activeMessagePlainText,
                  annotationsByMessage, composerValue, isSending, nextId, segOut >>

\* run of components/AssistantMessageView.tsx
runEvery ==
  /\ segIn.by = "components"
  /\ runBody
  /\ segOut' = [segOut EXCEPT
                  !.applied = IF last'.op = "handleSelectRange" THEN @ + 1 ELSE @]
  /\ UNCHANGED << conversation, annotationsByMessage, composerValue, isSending,
                  nextId, segIn >>

\* run of part_001: nothing when the gesture was processed, when there is no
\* selection or when it is collapsed; otherwise the gesture is processed
runOnce ==
  /\ segIn.by = "part_001"
  /\ deferred # << >>
  /\ deferred' = Tail(deferred)
  /\ LET closure == Head(deferred)
         offsets == getOffsetsFromRange(closure.messageId, selection)
     IN  IF segOut.processed \/ selection.ranges = 0 \/ Collapsed(selection)
         THEN /\ last' = Last("run:none", NoId, closure.messageId)
              /\ UNCHANGED << sessionVars, activeMessageId, activeMessagePlainText,
                              selection, segOut >>
         ELSE IF offsets.start = offsets.end
         THEN /\ clearSelection
              /\ segOut' = [segOut EXCEPT !.processed = TRUE]
              /\ last' = Last("run:empty", NoId, closure.messageId)
              /\ UNCHANGED << activeMessageId, activeMessagePlainText >>
         ELSE /\ handleSelectRange(offsets, SomePosition, RangeText(selection),
                                   closure.messageId, closure.plainText,
                                   closure.annotations)
              /\ segOut' = [processed |-> TRUE, applied |-> segOut.applied + 1]
              /\ last' = Last("handleSelectRange", NoId, closure.messageId)
              /\ UNCHANGED selection
  /\ UNCHANGED << conversation, annotationsByMessage, composerValue, isSending,
                  nextId, segIn >>

\* part_001's effect of pendingRects: the native selection is removed once the
\* overlay of the pending range is rendered
removeNativeSelection ==
  /\ segIn.by = "part_001"
  /\ pendingRange # NoRange
  /\ selection.ranges > 0
  /\ selection' = NoSelection
  /\ last' = Last("removeAllRanges", NoId, SampleId)
  /\ UNCHANGED << sessionVars, conversation, activeMessageId, activeMessagePlainText,
                  annotationsByMessage, composerValue, isSending, nextId, deferred,
                  segVars >>

GestureNext ==
  \/ handleSelectionStart
  \/ handleSelectionEnd
  \/ runEvery
  \/ runOnce
  \/ removeNativeSelection

GestureSpec == GestureInit /\ [][GestureNext]_vars

(***************************************************************************)
(* Properties of the segment builder, stated of segOut, the result of one  *)
(* call on segIn.                                                          *)
(***************************************************************************)
SegmentTexts(segments) == Concat([i \in 1..Len(segments) |-> segments[i].text])

Contiguous(text, segments) ==
  IF segments = << >> THEN text = << >>
  ELSE /\ segments[1].from = 0
       /\ \A i \in 1..(Len(segments) - 1) : segments[i + 1].from = segments[i].to
       /\ segments[Len(segments)].to = Len(text)

\* B starts strictly inside the earlier-starting A and ends after A.end
StartsInside(B, A) == A.start < B.start /\ B.start < A.end /\ A.end < B.end

\* segments has A over [A.start, A.end) and, next to it, B over [A.end, B.end)
EarlierWins(segments, A, B) ==
  \E i \in 1..(Len(segments) - 1) :
     /\ segments[i].annotation = A
     /\ segments[i].from = A.start /\ segments[i].to = A.end
     /\ segments[i + 1].annotation = B
     /\ segments[i + 1].from = A.end /\ segments[i + 1].to = B.end

\* C1 segment coverage: the texts of the segments buildSegments returns,
\* concatenated in order, are the text it was given, whatever the annotations.
SegmentCoverage ==
  segOut.by # "none" => SegmentTexts(segOut.segments) = segIn.text

\* C2 segment non-overlap: the text-index ranges of the segments buildSegments
\* returns are contiguous: the first starts at 0, each next one starts where
\* the one before it ended, and the last ends at the length of the text.
SegmentNonOverlap ==
  segOut.by # "none" => Contiguous(segIn.text, segOut.segments)

\* C3 earlier-wins tie-break: of two annotations A and B, B starting strictly
\* inside the earlier-starting A and ending after it, buildSegments emits A
\* over [A.start, A.end) and then B over [A.end, B.end); for {0,10} and {5,15}
\* over 15 characters the result is those two segments, [0,10) and [10,15).
EarlierWinsTieBreak ==
  /\ (segOut.by # "none" /\ Len(segIn.annotations) = 2) =>
        \A a, b \in 1..2 :
           StartsInside(segIn.annotations[b], segIn.annotations[a]) =>
              EarlierWins(segOut.segments, segIn.annotations[a], segIn.annotations[b])
  /\ (segOut.by # "none" /\ segIn.text = ExampleText
        /\ segIn.annotations = ExampleAnnotations) =>
        segOut.segments =
          << Segment(ExampleText, 0, 10, ExampleAnnotations[1]),
             Segment(ExampleText, 10, 15, ExampleAnnotations[2]) >>

\* part_001's buildSegments has the three properties
CursorSegments ==
  segOut.by = "part_001" =>
     /\ SegmentTexts(segOut.segments) = segIn.text
     /\ Contiguous(segIn.text, segOut.segments)
     /\ \A a, b \in 1..Len(segIn.annotations) :
           (Len(segIn.annotations) = 2
              /\ StartsInside(segIn.annotations[b], segIn.annotations[a])) =>
              EarlierWins(segOut.segments, segIn.annotations[a], segIn.annotations[b])


(***************************************************************************)
(* Properties of the selection session and the annotation store.           *)
(***************************************************************************)
Idle ==
  /\ pendingRange = NoRange
  /\ toolbarPosition = NoPosition
  /\ toolbarNoteText = << >>
  /\ editingAnnotationId = NoId
  /\ toolbarMode = "cta"

\* a step of run that calls onSelectRange
SelectRangeStep == run /\ last'.op = "handleSelectRange"

\* the indexes of the annotations of anns whose [start, end) shares a character
\* with [range.start, range.end)
StrictlyOverlapping(anns, range) ==
  { i \in 1..Len(anns) : range.start < anns[i].end /\ anns[i].start < range.end }

\* C4 strict overlap: a fresh selection opens an edit of a stored annotation iff
\* its range [a,b) and some annotation's [c,d) of the set the handler looks in
\* satisfy a < d and c < b; a selection that only touches an annotation at an
\* endpoint opens create mode, editingAnnotationId null.
StrictOverlap ==
  [][SelectRangeStep =>
       LET target == Head(deferred).annotations
       IN  /\ (editingAnnotationId' # NoId) <=>
                 (StrictlyOverlapping(target, pendingRange') # {})
           /\ (\A i \in 1..Len(target) :
                  target[i].end = pendingRange'.start
                    \/ target[i].start = pendingRange'.end)
                 => (editingAnnotationId' = NoId /\ toolbarMode' = "cta")]_vars

\* C4 witness: {0,5} is stored and the selection {5,10} has opened create mode
StrictOverlapWitness ==
  /\ last.op = "handleSelectRange"
  /\ pendingRange = [start |-> 5, end |-> 10]
  /\ \E i \in 1..Len(Get(annotationsByMessage, activeMessageId)) :
        LET a == Get(annotationsByMessage, activeMessageId)[i]
        IN  a.start = 0 /\ a.end = 5
  /\ editingAnnotationId = NoId
  /\ toolbarMode = "cta"


\* C5 selection opens a session: a mapped non-empty selection in message m
\* whose range strictly overlaps an annotation stored for m opens Composing
\* (mode note) on the first such annotation in stored order, the note field
\* holding its noteText; any other opens RangeSelected (mode cta) with
\* editingAnnotationId null and an empty note.
SelectionOpensSession ==
  [][SelectRangeStep =>
       LET stored == Get(annotationsByMessage, activeMessageId')
           over   == StrictlyOverlapping(stored, pendingRange')
           first  == stored[CHOOSE i \in over : \A j \in over : i <= j]
       IN  IF over # {}
           THEN /\ toolbarMode' = "note"
                /\ editingAnnotationId' = first.id
                /\ toolbarNoteText' = first.noteText
           ELSE /\ toolbarMode' = "cta"
                /\ editingAnnotationId' = NoId
                /\ toolbarNoteText' = << >>]_vars

\* a step of saveAnnotation that takes the insert branch
InsertStep == saveAnnotation /\ editingAnnotationId = NoId

\* C6 commit of a new note: the active message's set gains exactly one
\* annotation, at its end, over the pending range, of the active message and
\* with an id no stored annotation has; every set is otherwise as it was, and
\* the session is Idle afterwards.
CommitInserts ==
  [][InsertStep =>
       LET before == Get(annotationsByMessage, activeMessageId)
           after  == Get(annotationsByMessage', activeMessageId)
           new    == after[Len(after)]
       IN  /\ Len(after) = Len(before) + 1
           /\ SubSeq(after, 1, Len(before)) = before
           /\ new.start = pendingRange.start /\ new.end = pendingRange.end
           /\ new.messageId = activeMessageId
           /\ new.id \notin Ids(allAnnotations)
           /\ \A key \in (Keys(annotationsByMessage) \cup Keys(annotationsByMessage'))
                           \ { activeMessageId } :
                 Get(annotationsByMessage', key) = Get(annotationsByMessage, key)
           /\ Idle']_vars

\* C6 witness: a second annotation has just been appended to a message's set
CommitInsertsWitness ==
  /\ last.op = "saveAnnotation:insert"
  /\ LET set == Get(annotationsByMessage, last.messageId)
     IN  /\ Len(set) >= 2
         /\ set[Len(set)].id = last.id
         /\ set[Len(set)].start = last.range.start
  /\ Idle


\* a step of saveAnnotation that takes the update branch
UpdateStep == saveAnnotation /\ editingAnnotationId # NoId

\* a step of the toolbar's Delete or of the close button of the chip of id
ToolbarDeleteStep == deleteAnnotation
ChipDeleteStep(id) == chipDelete(id)

\* C7 commit of an edit: when editingAnnotationId is a stored annotation's id,
\* of whichever message and however the session was entered, the commit
\* leaves that annotation with the note composed in the toolbar (trimmed, as
\* every stored note is).
CommitEditsNote ==
  [][(UpdateStep /\ editingAnnotationId \in Ids(allAnnotations)) =>
       FindById(allAnnotations', editingAnnotationId).noteText
         = Trim(toolbarNoteText)]_vars

\* C8 an edit commit changes only noteText and snippet: the store holds the
\* same annotations in the same places, the edited one with its id, messageId,
\* start, end and createdAt, every other one as it was.
CommitEditFrame ==
  [][UpdateStep =>
       /\ Len(allAnnotations') = Len(allAnnotations)
       /\ \A i \in 1..Len(allAnnotations) :
             LET before == allAnnotations[i]
                 after  == allAnnotations'[i]
             IN  /\ after.id = before.id
                 /\ after.messageId = before.messageId
                 /\ after.start = before.start /\ after.end = before.end
                 /\ after.createdAt = before.createdAt
                 /\ before.id # editingAnnotationId => after = before
       /\ \A key \in Keys(annotationsByMessage) \cup Keys(annotationsByMessage') :
             Len(Get(annotationsByMessage', key)) = Len(Get(annotationsByMessage, key))]_vars

\* C8 witness: an edit was committed with a pending range that is not the
\* edited annotation's range; the note changed, and another annotation is stored
CommitEditFrameWitness ==
  /\ last.op = "saveAnnotation:update"
  /\ LET a == FindById(allAnnotations, last.id)
     IN  /\ a # NoAnnotation
         /\ a.noteText # << >>
         /\ last.range # [start |-> a.start, end |-> a.end]
  /\ Len(allAnnotations) >= 2

\* C9 delete: the toolbar's Delete and the close button of a composer chip
\* remove the annotation of that id from the set of whichever message holds
\* it, active or not, and leave every other annotation as it was.
DeleteRemoves ==
  [][/\ (ToolbarDeleteStep /\ editingAnnotationId \in Ids(allAnnotations)) =>
          allAnnotations' = Filter(allAnnotations, editingAnnotationId)
     /\ \A id \in Ids(allAnnotations) :
          ChipDeleteStep(id) => allAnnotations' = Filter(allAnnotations, id)]_vars

\* C10 an update or a delete of an id no stored annotation has changes no
\* message's set.
UnknownIdNoOp ==
  [][((UpdateStep \/ ToolbarDeleteStep) /\ editingAnnotationId \notin Ids(allAnnotations)) =>
       \A key \in Keys(annotationsByMessage) \cup Keys(annotationsByMessage') :
          Get(annotationsByMessage', key) = Get(annotationsByMessage, key)]_vars

\* C10 witness: an edit of an id that is not stored was committed (a commit
\* removes nothing, so the id was not stored before it either); the set of
\* the active message is there and is empty
UnknownIdNoOpWitness ==
  /\ last.op = "saveAnnotation:update"
  /\ last.id # NoId
  /\ last.id \notin Ids(allAnnotations)
  /\ last.messageId \in Keys(annotationsByMessage)
  /\ Get(annotationsByMessage, last.messageId) = << >>


\* a step that deletes the annotation id: its chip's close button, or the
\* toolbar's Delete while the toolbar edits it
DeleteStep(id) ==
  ChipDeleteStep(id) \/ (ToolbarDeleteStep /\ editingAnnotationId = id)

\* the two stores have the same annotations, in the same order, for every message
SameSets(store, other) ==
  \A key \in Keys(store) \cup Keys(other) : Get(store, key) = Get(other, key)

\* C11 insert then delete: deleting the annotation that was just inserted
\* (by its chip, or by the toolbar's Delete after a click on its span) gives
\* back, by value, the per-message sets the insert was applied to.
InsertDeleteRestores ==
  [][\A id \in Ids(allAnnotations) :
       (last.inserted.id = id /\ DeleteStep(id)) =>
          SameSets(annotationsByMessage', last.inserted.before)]_vars


(***************************************************************************)
(* Properties of the send of a prompt.                                     *)
(***************************************************************************)
\* a step of sendPrompt that sends: the user entry and the pending reply are added
SendStep ==
  /\ ~isSending
  /\ isSending'
  /\ Len(conversation') = Len(conversation) + 2

\* the content of the user entry a SendStep adds
Payload == conversation'[Len(conversation) + 1].content

\* C12 clear-on-send: right after a send every message's set is empty; a send
\* made while no annotation is stored (none is, from a send until the next
\* commit) carries the user's text alone.
ClearOnSend ==
  [][/\ SendStep =>
          /\ \A key \in Keys(annotationsByMessage) \cup Keys(annotationsByMessage') :
                Get(annotationsByMessage', key) = << >>
          /\ allAnnotations = << >> => Payload = Trim(composerValue)
     /\ (allAnnotations = << >> /\ ~InsertStep) => allAnnotations' = << >>]_vars

\* C12 witness: a prompt with notes was sent, then a second prompt whose
\* payload is the text typed, "q"; the store is empty
ClearOnSendWitness ==
  /\ last.op = "sendPrompt"
  /\ Len(conversation) >= 5
  /\ conversation[Len(conversation) - 1].content = << "q" >>
  /\ \E i \in 1..(Len(conversation) - 2) :
        /\ conversation[i].role = "user"
        /\ Len(conversation[i].content) > 10
  /\ annotationsByMessage = << >>


\* a call of sendPrompt while no request is in flight, nothing is stored and
\* the composer holds nothing but whitespace
EmptySendStep ==
  /\ sendPromptWithin(TRUE)
  /\ ~isSending
  /\ allAnnotations = << >>
  /\ \A i \in 1..Len(composerValue) : composerValue[i] \in Whitespace

\* C13 formatter empty case: with no annotation and an empty or whitespace-only
\* text the message is empty and nothing is sent: the conversation, the store,
\* the session and the sending flag stay as they are.
EmptyNotSent ==
  [][EmptySendStep =>
       /\ fullUserMessage(composerValue, allAnnotations) = << >>
       /\ UNCHANGED << conversation, annotationsByMessage, sessionVars,
                       isSending, composerValue >>]_vars

\* C13 witness: sendPrompt has returned on a whitespace-only text, a session open
EmptyNotSentWitness ==
  /\ last.op = "sendPrompt:empty"
  /\ composerValue = << " " >>
  /\ allAnnotations = << >>
  /\ toolbarPosition = SomePosition
  /\ ~isSending


\* The formatter no module calls lists the annotations by start and puts its
\* placeholder beside an empty note.
FollowupPromptSorted ==
  LET prompt == buildFollowupPrompt(allAnnotations, activeMessagePlainText)
  IN  /\ prompt = buildFollowupPrompt(SortByStart(allAnnotations),
                                      activeMessagePlainText)
      /\ allAnnotations = << >> => prompt = NoAnnotationsPrompt
      /\ \A i \in 1..Len(allAnnotations) :
            Trim(allAnnotations[i].noteText) = << >> =>
              Contains(prompt, << EmDash, " " >> \o NoNoteText)

\* C14 prompt order: the message that is sent lists the annotations by start
\* ascending, whatever the order they were stored in, numbered 1..n.
PromptSortedByStart ==
  [][SendStep =>
       Payload = fullUserMessage(composerValue, SortByStart(allAnnotations))]_vars


\* `${n}) "${snippet}"`, the head of the n-th entry of the list
EntryHead(ann, n) ==
  Digits(n) \o << ")", " ", "\"" >> \o ann.snippet \o << "\"" >>

\* the n-th entry carries, after the dash, the note or what stands for it
EntryPaired(text, ann, n) ==
  Contains(text, EntryHead(ann, n) \o << " ", EmDash, " " >> \o Trim(ann.noteText))

\* C15 prompt entries: every entry of the message that is sent pairs the
\* annotation's snippet with its note, and where the note is empty with a
\* placeholder in the note's place.
PromptPairsNotes ==
  [][SendStep =>
       \A n \in 1..Len(allAnnotations) :
          EntryPaired(Payload, allAnnotations[n], n)]_vars


\* "${snippet}" and, when the note is not empty, the dash and the note
Excerpt(ann) ==
  LET note == Trim(ann.noteText)
  IN  << "\"" >> \o ann.snippet \o << "\"" >>
      \o (IF note # << >> THEN << " ", EmDash, " " >> \o note ELSE << >>)

\* C16 prompt content: a send with a text and a non-empty store puts in the
\* message the text as typed (trimmed) and, for every annotation of every
\* message, its quoted snippet with its note beside it.
PayloadCarries ==
  [][(SendStep /\ Trim(composerValue) # << >> /\ allAnnotations # << >>) =>
       /\ Contains(Payload, Trim(composerValue))
       /\ \A n \in 1..Len(allAnnotations) :
             Contains(Payload, Excerpt(allAnnotations[n]))
       /\ \A key \in Keys(annotationsByMessage) :
             \A n \in 1..Len(Get(annotationsByMessage, key)) :
                Contains(Payload, Excerpt(Get(annotationsByMessage, key)[n]))]_vars

\* C16 witness: "fix this" was sent with [4,9) of "The quick brown fox" noted
\* "typo?"
PayloadCarriesWitness ==
  /\ last.op = "sendPrompt"
  /\ \E i \in 1..Len(conversation) :
        /\ conversation[i].role = "user"
        /\ Contains(conversation[i].content, FixThis)
        /\ Contains(conversation[i].content,
                    << "\"", "q", "u", "i", "c", "k", "\"", " ", EmDash, " " >>
                    \o Typo)


\* the handlers that end or replace a session: cancel, commit, delete, send
SessionEnders ==
  { "cancel", "handleOutside", "saveAnnotation:insert", "saveAnnotation:update",
    "deleteAnnotation", "chipDelete", "sendPrompt" }

\* a deferred run before which, and after its pointer event, one of them ran
StaleRunStep == run /\ last.op \in SessionEnders

\* C17 stale deferred result: a deferred run that follows a cancel, a commit, a
\* delete or a send made after its pointer event discards its result: the
\* session fields and the active message stay as that handler left them.
StaleRunDiscarded ==
  [][StaleRunStep =>
       UNCHANGED << sessionVars, activeMessageId, activeMessagePlainText >>]_vars


\* a step of the selection path: the pointer, mouse or touch event, the
\* deferred run with its handleSelectRange or clearSelection, and the
\* clearSelection of a cancel or of a pointer-down outside
SelectionPathStep ==
  last'.op \in { "handleSelection", "run:none", "run:collapsed", "run:empty",
                 "handleSelectRange", "cancel", "handleOutside" }

\* C18 selection path frame: no step of the selection path changes the store;
\* it sets or clears the session fields alone.
SelectionPathKeepsStore ==
  [][SelectionPathStep =>
       UNCHANGED << annotationsByMessage, conversation, composerValue,
                    isSending, nextId >>]_vars

\* C18 witness: a deferred run has opened a session while annotations are stored
SelectionPathKeepsStoreWitness ==
  /\ last.op = "handleSelectRange"
  /\ pendingRange # NoRange
  /\ toolbarPosition = SomePosition
  /\ Len(allAnnotations) >= 2


\* C19 removal: an annotation leaves the store only by a delete of that
\* annotation or by the send of a prompt; one committed while a request is in
\* flight is still stored once the response, or its failure, is processed.
RemovedOnlyByDeleteOrSend ==
  [][\A id \in Ids(allAnnotations) \ Ids(allAnnotations') :
        SendStep \/ DeleteStep(id)]_vars


\* C20 offsets: every stored annotation has 0 <= start < end <= the length of
\* the plain text of its message, wherever the browser selection it was made
\* from began or ended.
OffsetsWithinText ==
  \A n \in 1..Len(allAnnotations) :
     LET ann == allAnnotations[n]
     IN  /\ 0 <= ann.start
         /\ ann.start < ann.end
         /\ ann.end <= Len(Entry(ann.messageId).content)


\* a call of either mapper has returned
Mapped == segOut # NoResult

\* the range the mapper was called with
MappedRange == getRangeAt(segIn.nodes, segIn.anchor, segIn.focus)

\* C21 offset round-trip: the range from the text position s to the text
\* position e of a container, however its text is split in text nodes, is
\* resolved to exactly {start: s, end: e}.
OffsetRoundTrip ==
  (/\ Mapped
   /\ MappedRange.start.kind = "text"
   /\ MappedRange.end.kind = "text") =>
     segOut.offsets = [start |-> TextPosition(segIn.nodes, MappedRange.start),
                       end   |-> TextPosition(segIn.nodes, MappedRange.end)]


\* the two offsets the mapper found for the start and the end of the range,
\* before its return statement
FoundOffsets ==
  IF segOut.by = "components"
  THEN [start |-> measureNodes(segIn.nodes, MappedRange.start),
        end   |-> measureNodes(segIn.nodes, MappedRange.end)]
  ELSE WalkLoop(segIn.nodes, MappedRange, 0, 0, NoOffset, NoOffset)

\* C22 normalisation: a result that is not null has start <= end, and it is
\* made of the two offsets found, swapped when the one found for the start
\* is the larger.
OffsetsOrdered ==
  (Mapped /\ segOut.offsets # NoRange) =>
     /\ segOut.offsets.start <= segOut.offsets.end
     /\ segOut.offsets = IF FoundOffsets.start <= FoundOffsets.end
                         THEN [start |-> FoundOffsets.start,
                               end |-> FoundOffsets.end]
                         ELSE [start |-> FoundOffsets.end,
                               end |-> FoundOffsets.start]

\* C22 witness: the offset found for the start was the larger and the result
\* has the two swapped
OffsetsOrderedWitness ==
  /\ Mapped
  /\ segOut.offsets # NoRange
  /\ FoundOffsets.start > FoundOffsets.end
  /\ segOut.offsets.start = FoundOffsets.end
  /\ segOut.offsets.end = FoundOffsets.start


\* a deferred run that found a collapsed selection or mapped the selection
\* to an empty range
NoSelectionStep == run /\ last'.op \in { "run:collapsed", "run:empty" }

\* C23 no selection: after a selection event whose range is collapsed or is
\* mapped to an empty range the session is Idle, a range that was pending
\* being cleared, and the store is as it was.
NoSelectionIdle ==
  [][NoSelectionStep => (Idle' /\ UNCHANGED annotationsByMessage)]_vars


\* the toolbar's cancel, or a mouse-down outside the toolbar while it is shown
CancelStep == last'.op \in { "cancel", "handleOutside" }

\* C24 cancel: from any state of the session a cancel leads to Idle (no
\* pending range, no toolbar position, no note text, no editing id, mode
\* cta) and leaves the store as it was.
CancelLeadsToIdle ==
  [][CancelStep => (Idle' /\ UNCHANGED annotationsByMessage)]_vars

\* C24 witness: a mouse-down outside the toolbar has ended a session while
\* annotations are stored
CancelLeadsToIdleWitness ==
  /\ last.op = "handleOutside"
  /\ Idle
  /\ allAnnotations # << >>


\* a click on the span of a stored annotation
FocusStep == last'.op = "focusAnnotation" /\ last'.id \in Ids(allAnnotations)

\* C25 span click: a click on the span of a stored annotation, of whichever
\* message, opens the note toolbar on that annotation: editingAnnotationId is
\* its id, pendingRange its stored range and the note field its note.
SpanClickEdits ==
  [][FocusStep =>
       LET stored == FindById(allAnnotations, last'.id)
       IN  /\ toolbarPosition' # NoPosition
           /\ toolbarMode' = "note"
           /\ editingAnnotationId' = stored.id
           /\ pendingRange' = [start |-> stored.start, end |-> stored.end]
           /\ toolbarNoteText' = stored.noteText]_vars


\* every annotation of the set stored under a key names that key's message
KeyedByMessage ==
  \A i \in 1..Len(annotationsByMessage) :
     \A n \in 1..Len(annotationsByMessage[i].annotations) :
        annotationsByMessage[i].annotations[n].messageId = annotationsByMessage[i].key

\* a range pending for a new annotation is set, and the active message is
\* changed under it, by a run of that message's view alone, which maps the
\* selection against that message's container
FreshRangeMapped ==
  (/\ pendingRange' # NoRange
   /\ editingAnnotationId' = NoId
   /\ << pendingRange', activeMessageId', editingAnnotationId' >>
        # << pendingRange, activeMessageId, editingAnnotationId >>) =>
     /\ last'.op = "handleSelectRange"
     /\ deferred # << >>
     /\ LET m == Head(deferred).messageId
        IN  /\ activeMessageId' = m
            /\ activeMessagePlainText' = Entry(m).content
            /\ pendingRange' = getOffsetsFromRange(m, selection)

\* an insert stores the pending range under the active message
InsertUnderActive ==
  last'.op = "saveAnnotation:insert" =>
     LET after == Get(annotationsByMessage', activeMessageId)
         new   == after[Len(after)]
     IN  /\ after = Append(Get(annotationsByMessage, activeMessageId), new)
         /\ new.messageId = activeMessageId
         /\ new.start = pendingRange.start
         /\ new.end = pendingRange.end

\* an insert, an update or a delete changes the set of one key alone
OtherSetsKept ==
  last'.op \in { "saveAnnotation:insert", "saveAnnotation:update",
                 "deleteAnnotation", "chipDelete" } =>
     LET target == IF last'.op = "chipDelete" THEN Undefined ELSE activeMessageId
     IN  \A key \in (Keys(annotationsByMessage) \cup Keys(annotationsByMessage'))
                      \ { target } :
            Get(annotationsByMessage', key) = Get(annotationsByMessage, key)

RangeSlice == Slice(segIn.text, segIn.range.start, segIn.range.end)

\* C27 as stated: the stored snippet is the selected text if that is not
\* empty, otherwise the slice of the plain text over the pending range if
\* that is not empty, otherwise the empty string.
SnippetPrefersSelection ==
  Mapped =>
    segOut.snippet = IF segIn.selected # << >> THEN segIn.selected
                     ELSE IF RangeSlice # << >> THEN RangeSlice
                     ELSE << >>

\* C27 snippet resolution: the stored snippet is the selected text without
\* the whitespace at its ends if that is not empty, otherwise the slice of
\* the plain text over the pending range if that is not empty, otherwise the
\* empty string; "The quick brown fox" and [4,9) give "quick".
SnippetResolution ==
  Mapped =>
    /\ segOut.snippet = IF Trim(segIn.selected) # << >> THEN Trim(segIn.selected)
                        ELSE IF RangeSlice # << >> THEN RangeSlice
                        ELSE << >>
    /\ (/\ Len(segIn.text) = 19
        /\ segIn.range = [start |-> 4, end |-> 9]
        /\ Trim(segIn.selected) \in { << >>, RangeSlice }) =>
          segOut.snippet = << "q", "u", "i", "c", "k" >>

\* C27 witness: nothing but whitespace was selected and [4,9) of "The quick
\* brown fox" was resolved to "quick"
SnippetResolutionWitness ==
  /\ Mapped
  /\ segIn.selected = << " " >>
  /\ Len(segIn.text) = 19
  /\ segIn.range = [start |-> 4, end |-> 9]
  /\ segOut.snippet = << "q", "u", "i", "c", "k" >>


\* a call of sendPrompt while a request is in flight
SecondSendStep == sendPromptWithin(TRUE) /\ isSending

\* C28 second send: a send requested while a request is outstanding changes
\* neither the conversation, the store, the composer text nor the session,
\* and no second request is made.
SecondSendRefused ==
  [][SecondSendStep =>
       UNCHANGED << conversation, annotationsByMessage, composerValue,
                    sessionVars, isSending, nextId, activeMessageId >>]_vars

\* C28 witness: a send was refused while a text was typed, an annotation was
\* stored and a note was being composed
SecondSendRefusedWitness ==
  /\ last.op = "sendPrompt:sending"
  /\ isSending
  /\ composerValue = << "q" >>
  /\ allAnnotations # << >>
  /\ pendingRange # NoRange


\* the cursor buildSegments has reached when it comes to the k-th annotation
\* in start order: the furthest end of the annotations before it
CursorBefore(sorted, k) ==
  LET ends == { sorted[i].end : i \in 1..(k - 1) }
  IN  IF ends = {} THEN 0 ELSE CHOOSE e \in ends : \A f \in ends : f <= e

\* the segments of the result that are tagged with the annotation
SegmentsTagged(segments, annotation) ==
  { i \in 1..Len(segments) : segments[i].annotation.id = annotation.id }

\* the segments of the result that stand for the text index p
SegmentsAt(segments, p) ==
  { i \in 1..Len(segments) : segments[i].from <= p /\ p < segments[i].to }

SubsumedDroppedIn(sorted, segments) ==
  \A k \in 1..Len(sorted) :
    sorted[k].end <= CursorBefore(sorted, k) =>
      /\ SegmentsTagged(segments, sorted[k]) = {}
      /\ \A p \in sorted[k].start..(sorted[k].end - 1) :
           /\ Cardinality(SegmentsAt(segments, p)) = 1
           /\ \A i \in SegmentsAt(segments, p) :
                \E j \in 1..(k - 1) : segments[i].annotation.id = sorted[j].id

\* C29 subsumed annotation: an annotation that ends at or before the cursor
\* reached after the annotations that start before it has no segment in the
\* result of buildSegments, and each text index it covers stands in exactly
\* one segment, a segment of an earlier annotation.
SubsumedDropped ==
  segOut # NoResult =>
    SubsumedDroppedIn(SortByStart(segIn.annotations), segOut.segments)

TiesInStoredOrderIn(annotations, segments) ==
  \A i, j \in 1..Len(annotations) :
    (i < j /\ annotations[i].start = annotations[j].start) =>
      LET first  == annotations[i]
          other  == annotations[j]
          sorted == SortByStart(annotations)
      IN  \* the one stored first is emitted first
          /\ \A s \in SegmentsTagged(segments, first) :
               \A t \in SegmentsTagged(segments, other) : s < t
          \* it claims the shared prefix when nothing before it has
          /\ (\A k \in 1..Len(annotations) :
                annotations[k].start < first.start => annotations[k].end <= first.start)
             /\ (\A k \in 1..(i - 1) : annotations[k].start # first.start)
               => \E s \in SegmentsTagged(segments, first) :
                    segments[s].from = first.start /\ segments[s].to = first.end
          \* the other is truncated to what lies beyond it, or dropped
          /\ \A t \in SegmentsTagged(segments, other) : segments[t].from >= first.end

\* C30 ties: the buildSegments of part_001 takes the annotations in ascending
\* start order and annotations of equal start in their stored order; of two
\* annotations with equal start the one stored first is emitted first and
\* covers the shared prefix, and the other is emitted only beyond the first
\* one's end or not at all.
TiesInStoredOrder ==
  (segOut # NoResult /\ segOut.by = "part_001") =>
    TiesInStoredOrderIn(segIn.annotations, segOut.segments)

\* C30 witness: two annotations start together, the shorter stored first;
\* the result has the first over its own range and the other truncated
TiesInStoredOrderWitness ==
  /\ segOut # NoResult
  /\ segOut.by = "part_001"
  /\ Len(segIn.annotations) = 2
  /\ segIn.annotations[1].start = segIn.annotations[2].start
  /\ segIn.annotations[1].end < segIn.annotations[2].end
  /\ \E s \in SegmentsTagged(segOut.segments, segIn.annotations[1]) :
       \E t \in SegmentsTagged(segOut.segments, segIn.annotations[2]) :
         /\ s < t
         /\ segOut.segments[t].from = segIn.annotations[1].end

\* what holds of the buildSegments of part_001: a subsumed annotation is dropped
CursorDropsSubsumed ==
  (segOut # NoResult /\ segOut.by = "part_001") =>
    SubsumedDroppedIn(SortByStart(segIn.annotations), segOut.segments)


\* C31 toolbar delete: the toolbar's Delete is taken only while
\* editingAnnotationId is set; it removes the annotation of that id from the
\* store and leaves the session Idle.
ToolbarDeleteRemoves ==
  [][last'.op = "deleteAnnotation" =>
       /\ editingAnnotationId # NoId
       /\ editingAnnotationId \notin Ids(allAnnotations')
       /\ Idle']_vars

\* what holds of the toolbar's Delete: it is taken only while
\* editingAnnotationId is set, it filters the active message's set and it
\* leaves the session Idle
ToolbarDeleteFiltersActive ==
  [][last'.op = "deleteAnnotation" =>
       /\ editingAnnotationId # NoId
       /\ Get(annotationsByMessage', activeMessageId)
            = Filter(Get(annotationsByMessage, activeMessageId), editingAnnotationId)
       /\ Idle']_vars



\* C32 add note: the add-note request is taken with a range pending and no
\* editing id; it sets the toolbar's mode to note and changes neither the
\* pending range, the selected text, the toolbar's position, the note text,
\* the active message nor the store, the editing id stays null, and a commit
\* that follows it is an insert.
BeginNoteComposes ==
  [][/\ last'.op = "beginNote" =>
          /\ pendingRange # NoRange
          /\ editingAnnotationId = NoId
          /\ toolbarMode' = "note"
          /\ UNCHANGED << pendingRange, selectedText, toolbarPosition,
                          toolbarNoteText, editingAnnotationId, activeMessageId,
                          activeMessagePlainText, annotationsByMessage >>
     /\ (last.op = "beginNote"
          /\ last'.op \in { "saveAnnotation:insert", "saveAnnotation:update" }) =>
          last'.op = "saveAnnotation:insert"]_vars

\* C32 witness: a note was requested for a selected text of a message that
\* has a stored annotation
BeginNoteComposesWitness ==
  /\ last.op = "beginNote"
  /\ toolbarMode = "note"
  /\ pendingRange # NoRange
  /\ selectedText # << >>
  /\ editingAnnotationId = NoId
  /\ Get(annotationsByMessage, activeMessageId) # << >>



\* no two annotations of one message's set share a character
StoredDisjoint ==
  \A k \in 1..Len(annotationsByMessage) :
    LET anns == annotationsByMessage[k].annotations
    IN  \A i, j \in 1..Len(anns) :
          i < j => ~(anns[i].start < anns[j].end /\ anns[j].start < anns[i].end)

EditingImpliesComposing ==
  /\ editingAnnotationId # NoId => (toolbarMode = "note" /\ pendingRange # NoRange)
  /\ pendingRange = NoRange => editingAnnotationId = NoId

\* C34 witness: a selection over a stored annotation has opened an edit
EditingImpliesComposingWitness ==
  /\ last.op = "handleSelectRange"
  /\ editingAnnotationId \in Ids(allAnnotations)
  /\ toolbarMode = "note"
  /\ pendingRange # NoRange



\* C35 editing id is stored: in every reachable state an editing id that is
\* set is the id of an annotation of the active message's set.
EditingIdStored ==
  editingAnnotationId # NoId =>
    editingAnnotationId \in Ids(Get(annotationsByMessage, activeMessageId))



\* the ids generateId gives the entries of a conversation of SendSpec
EntryIds == 1..(MaxEntries + 4)

PendingEntry(id) ==
  \E i \in 1..Len(conversation) : conversation[i].id = id /\ conversation[i].pending

SettledEntry(id) ==
  \E i \in 1..Len(conversation) :
    /\ conversation[i].id = id
    /\ ~conversation[i].pending
    /\ conversation[i].content \in ReplyTexts \cup { FallbackText }

\* C36 send completes: the pending assistant entry an accepted send creates
\* is eventually not pending, with the reply's text or the fallback text, and
\* the sending flag is eventually false again.
SendCompletes ==
  /\ \A id \in EntryIds : PendingEntry(id) ~> SettledEntry(id)
  /\ isSending ~> ~isSending

\* C36 witness: the request of a send made after a first reply has failed and
\* its entry holds the fallback text
SendCompletesWitness ==
  /\ Len(conversation) = 5
  /\ last.op = "finalize:fallback"
  /\ SettledEntry(last.messageId)
  /\ conversation[5].id = last.messageId
  /\ conversation[5].content = FallbackText
  /\ ~isSending



\* the places of the conversation that hold a pending entry
PendingPlaces == { i \in 1..Len(conversation) : conversation[i].pending }

\* C37 one pending entry: in every reachable state at most one entry of the
\* conversation is pending, it is an assistant entry, and the sending flag is
\* true exactly when there is one.
OnePending ==
  /\ Cardinality(PendingPlaces) <= 1
  /\ \A i \in PendingPlaces : conversation[i].role = "assistant"
  /\ isSending <=> PendingPlaces # {}

\* C37 witness: a second prompt was sent after the reply to the first; its
\* entry is the one pending entry
OnePendingWitness ==
  /\ last.op = "sendPrompt"
  /\ Len(conversation) = 5
  /\ PendingPlaces = { 5 }
  /\ isSending



\* a finalize callback of a send: the reply's or the fallback's
FinalizeStep == last'.op \in { "finalize:reply", "finalize:fallback" }

\* C38 reply processed: when the reply or the failure of a send is processed,
\* the entry that was pending is settled and becomes the active message, the
\* store holds that message's key alone with an empty set, and no range is
\* pending, the toolbar has no position, no editing id is set and the note
\* text is empty, whatever the session was.
ReplyResetsSession ==
  [][FinalizeStep =>
       /\ PendingEntry(last'.messageId)
       /\ \E i \in 1..Len(conversation') :
            /\ conversation'[i].id = last'.messageId
            /\ conversation'[i].role = "assistant"
            /\ ~conversation'[i].pending
       /\ activeMessageId' = last'.messageId
       /\ annotationsByMessage' = << [key |-> last'.messageId, annotations |-> << >>] >>
       /\ pendingRange' = NoRange
       /\ toolbarPosition' = NoPosition
       /\ editingAnnotationId' = NoId
       /\ toolbarNoteText' = << >>]_vars

\* C38 witness: the failure of a request was processed while the user was
\* composing a note; the toolbar's mode is still note
ReplyResetsSessionWitness ==
  /\ last.op = "finalize:fallback"
  /\ activeMessageId = last.messageId
  /\ toolbarMode = "note"
  /\ pendingRange = NoRange
  /\ toolbarPosition = NoPosition



\* C39 one application per gesture: the end events of one pointer gesture,
\* each with its own deferred run, lead to at most one call of onSelectRange,
\* and the mouse-down of the next gesture re-arms the processing.
OneApplicationPerGesture ==
  /\ segOut.applied <= 1
  /\ last.op = "handleSelectionStart" => ~segOut.processed

\* what holds of part_001: selectionProcessedRef lets one run of a gesture
\* through, and handleSelectionStart resets it
ProcessedOnce ==
  segIn.by = "part_001" =>
    /\ segOut.applied <= 1
    /\ last.op = "handleSelectionStart" => ~segOut.processed

\* the second gesture of part_001 has been applied after the first was
ProcessedOnceRearmed ==
  /\ segIn.by = "part_001"
  /\ segIn.gestures = 2
  /\ segOut.applied = 1
  /\ pendingRange = [start |-> 5, end |-> 10]



\* the places of the result that hold an annotation-tagged segment
TaggedPlaces(segments) ==
  { i \in 1..Len(segments) : segments[i].annotation # NoAnnotation }

\* C40 well-formed segments: for annotations with 0 <= start < end <=
\* length(T), no segment of the result of buildSegments has an empty text, no
\* annotation tags more than one segment, the tagged segments are in
\* ascending order of their annotations' starts, and with no annotation and a
\* non-empty T the result is the one plain segment T.
SegmentsWellFormed ==
  segOut # NoResult =>
    LET segments == segOut.segments
    IN  /\ \A i \in 1..Len(segments) : segments[i].text # << >>
        /\ \A k \in 1..Len(segIn.annotations) :
             Cardinality(SegmentsTagged(segments, segIn.annotations[k])) <= 1
        /\ \A i, j \in TaggedPlaces(segments) :
             i < j => segments[i].annotation.start <= segments[j].annotation.start
        /\ (segIn.annotations = << >> /\ segIn.text # << >>) =>
             (/\ Len(segments) = 1
              /\ segments[1].text = segIn.text
              /\ segments[1].annotation = NoAnnotation)

\* C40 witness: the annotations were stored with the later-starting one
\* first; the result has a plain segment and both tagged segments, the
\* earlier-starting annotation's first
SegmentsWellFormedWitness ==
  /\ segOut # NoResult
  /\ Len(segIn.annotations) = 2
  /\ segIn.annotations[1].start > segIn.annotations[2].start
  /\ segIn.annotations[2].start > 0
  /\ Cardinality(TaggedPlaces(segOut.segments)) = 2
  /\ Len(segOut.segments) >= 3
  /\ segOut.segments[1].annotation = NoAnnotation

=============================================================================
